---- MODULE Spec2Model ----
(***************************************************************************)
(* Quota & subscription state engine (QuotaService): subscriptions,        *)
(* wallets, usage reservations and billing webhooks over a document store. *)
(* Every store round trip (read, query, batch commit, transaction) of a    *)
(* handler is one atomic step; the steps of different calls interleave.    *)
(***************************************************************************)
EXTENDS Integers, Sequences, FiniteSets, TLC

VARIABLES
    now,        \* wall clock (new Date()), in whole periods
    subs,       \* subscriptions_quota: userId -> document
    wallets,    \* quota_wallets: sequence of documents, id = index (store-assigned)
    usages,     \* quota_usages: <<userId, requestId>> -> document
    webhooks,   \* webhook_events: eventDocId -> status
    procs,      \* request handlers in flight: their position and locals
    returned,   \* history: the result of the call that returned in the step just taken, if any
    prev,       \* history: result of the latest Reserve per request since its last Commit/Rollback
    applied,    \* history: eventDocId -> number of subscription transactions run for it
    quotas      \* users_quato: userId -> the single quota document of the earlier model

vars == <<now, subs, wallets, usages, webhooks, procs, returned, prev, applied, quotas>>

----------------------------------------------------------------------------
\* Bounds of the model

MaxTime == 1
MaxWallets == 3
MaxEvents == 2

\* Absent markers (null / undefined)
Null == "null"
NoTime == -1

Users == {"u1"}
ReqIds == {"r1", "r2"}
Amounts == {1, 2}

----------------------------------------------------------------------------
\* Plan catalog (config/quotaConfig)

FreeQuota == 2
MonthlyQuota == 100
YearlyQuota == 1000

DEFAULT_PLAN_CONFIG ==
    << [planId |-> "free", planKey |-> "free", cycle |-> "monthly", quota |-> FreeQuota,
        productIds |-> {}],
       [planId |-> "premium_monthly", planKey |-> "base", cycle |-> "monthly", quota |-> MonthlyQuota,
        productIds |-> {"ai_or_real_premium:aiorreal-monthly", "aiorreal-monthly"}],
       [planId |-> "premium_yearly", planKey |-> "pro", cycle |-> "yearly", quota |-> YearlyQuota,
        productIds |-> {"ai_or_real_premium:aiorreal-yearly", "aiorreal-yearly"}] >>

NoPlan == [planId |-> Null, planKey |-> Null, cycle |-> Null, quota |-> 0, productIds |-> {}]

\* candidate.toLowerCase().trim() on the product / plan identifiers the model feeds in
Normalize(s) ==
    CASE s = "PREMIUM_MONTHLY" -> "premium_monthly"
      [] s = "AIORREAL-YEARLY" -> "aiorreal-yearly"
      [] OTHER -> s

\* String.prototype.includes on the identifiers the model feeds in
Includes(s, part) ==
    \/ s = part
    \/ part = "aiorreal-monthly" /\ s = "ai_or_real_premium:aiorreal-monthly"
    \/ part = "aiorreal-yearly" /\ s = "ai_or_real_premium:aiorreal-yearly"

getPlanConfigById(planId) ==
    IF planId = Null \/ planId = "" THEN NoPlan
    ELSE LET n == Normalize(planId)
             hits == {i \in 1..Len(DEFAULT_PLAN_CONFIG) : DEFAULT_PLAN_CONFIG[i].planId = n}
         IN IF hits = {} THEN NoPlan
            ELSE DEFAULT_PLAN_CONFIG[CHOOSE i \in hits : \A j \in hits : i <= j]

resolvePlanConfig(candidate) ==
    IF candidate = Null \/ candidate = "" THEN NoPlan
    ELSE LET n == Normalize(candidate)
             byId == {i \in 1..Len(DEFAULT_PLAN_CONFIG) : DEFAULT_PLAN_CONFIG[i].planId = n}
             byProduct == {i \in 1..Len(DEFAULT_PLAN_CONFIG) :
                             \E id \in DEFAULT_PLAN_CONFIG[i].productIds : Includes(n, id)}
         IN IF Includes(n, "aiorreal-monthly") THEN getPlanConfigById("premium_monthly")
            ELSE IF Includes(n, "aiorreal-yearly") \/ Includes(n, "aiorreal-annual")
                 THEN getPlanConfigById("premium_yearly")
            ELSE IF byId # {} THEN DEFAULT_PLAN_CONFIG[CHOOSE i \in byId : \A j \in byId : i <= j]
            ELSE IF byProduct # {}
                 THEN DEFAULT_PLAN_CONFIG[CHOOSE i \in byProduct : \A j \in byProduct : i <= j]
            ELSE NoPlan

----------------------------------------------------------------------------
\* Documents

NoSub == [exists |-> FALSE, plan_id |-> Null, is_active |-> FALSE, will_renew |-> FALSE,
          status |-> Null, current_period_start |-> NoTime, current_period_end |-> NoTime]

NoUsage == [exists |-> FALSE, wallet_id |-> 0, amount |-> 0, status |-> Null]

NoPayload == [userId |-> Null, eventId |-> Null, eventType |-> Null, productId |-> Null,
              willRenew |-> Null, periodStart |-> NoTime, periodEnd |-> NoTime]

\* users_quato document that does not exist
NoQuota == [exists |-> FALSE, planId |-> Null, cycle |-> Null, cycleStart |-> NoTime,
            cycleEnd |-> NoTime, imagesLimit |-> 0, imagesUsed |-> 0]

NoResult == [op |-> "none", userId |-> Null, requestId |-> Null, allowed |-> FALSE,
             status |-> Null, remaining |-> 0, walletId |-> 0, debited |-> FALSE, pre |-> 0]

IdleProc == [pc |-> "idle", op |-> "none", userId |-> Null, requestId |-> Null, amount |-> 0,
             now |-> 0, subscription |-> NoSub, wallet |-> 0, snap |-> {},
             reason |-> Null, setRemainingToZero |-> FALSE, ret |-> Null,
             payload |-> NoPayload, eventDocId |-> Null,
             shouldOpenWallet |-> FALSE, closeExisting |-> FALSE,
             existingActive |-> FALSE, activeBefore |-> {}, existingPlan |-> Null,
             planIdCandidate |-> Null]

Max(a, b) == IF a >= b THEN a ELSE b

WalletIds == 1..Len(wallets)

\* the query user_id == U and status == 'active'
ActiveWallets(u) == {w \in WalletIds : wallets[w].user_id = u /\ wallets[w].status = "active"}


\* getActiveWallet: orderBy period_end desc, limit 1 (0 when the query is empty);
\* documents that tie on period_end come in store order, which is arbitrary
getActiveWallet(u) ==
    IF ActiveWallets(u) = {} THEN {0}
    ELSE {w \in ActiveWallets(u) :
            \A v \in ActiveWallets(u) : wallets[w].period_end >= wallets[v].period_end}

Remaining(walletData) == Max(0, walletData.quota_total - walletData.quota_used)

----------------------------------------------------------------------------
\* History bookkeeping shared by every return

Result(op, u, r, allowed, status, remaining, walletId) ==
    [op |-> op, userId |-> u, requestId |-> r, allowed |-> allowed, status |-> status,
     remaining |-> remaining, walletId |-> walletId, debited |-> FALSE, pre |-> 0]

\* the result of the Reserve that debited wallet walletId, which held pre before
Debited(u, r, remaining, walletId, pre) ==
    [Result("reserve", u, r, TRUE, "reserved", remaining, walletId)
        EXCEPT !.debited = TRUE, !.pre = pre]

Rejected(u, r, remaining, walletId) ==
    Result("reserve", u, r, FALSE, "rejected", remaining, walletId)

NoPrev == [set |-> FALSE, status |-> Null, walletId |-> 0]

PrevAfter(res) ==
    IF res.requestId \notin ReqIds THEN prev
    ELSE IF res.op = "reserve"
         THEN [prev EXCEPT ![<<res.userId, res.requestId>>] =
                  [set |-> TRUE, status |-> res.status, walletId |-> res.walletId]]
    ELSE IF res.op \in {"commit", "rollback"}
         THEN [prev EXCEPT ![<<res.userId, res.requestId>>] = NoPrev]
    ELSE prev

\* handler p returns res to its caller
Return(p, res) ==
    /\ procs' = [procs EXCEPT ![p] = IdleProc]
    /\ returned' = res
    /\ prev' = PrevAfter(res)

\* handler p goes on: nothing is returned in this step
NoReturn ==
    /\ returned' = NoResult
    /\ prev' = prev

Busy == {p \in DOMAIN procs : procs[p].pc # "idle"}

\* a call may start while the wallets it can still open fit the model's bound
CanStart(p) ==
    /\ procs[p].pc = "idle"
    /\ Len(wallets) + Cardinality(Busy) < MaxWallets

----------------------------------------------------------------------------
\* closeWalletsForUser and openWalletForSubscription, called from several handlers

\* closeWalletsForUser up to its query: the handler goes on at ret when it returns
EnterClose(l, reason, zero, ret) ==
    [l EXCEPT !.pc = "cw_query", !.reason = reason, !.setRemainingToZero = zero, !.ret = ret]

\* where a handler goes on when openWalletForSubscription returns wallet w (0: null)
AfterOpen(l, w) ==
    CASE l.op = "reserve" -> [l EXCEPT !.pc = "rs_tx", !.wallet = w]
      [] l.op \in {"sync", "ensure"} -> [l EXCEPT !.pc = "sq_ret", !.wallet = w]
      [] OTHER -> [l EXCEPT !.pc = "rc_mark", !.wallet = w]

\* openWalletForSubscription up to its first store call
EnterOpen(l, closeExisting) ==
    IF getPlanConfigById(l.subscription.plan_id) = NoPlan
    THEN AfterOpen(l, 0)
    ELSE IF closeExisting
         THEN EnterClose(l, "plan_change", FALSE, "ow_set")
         ELSE [l EXCEPT !.pc = "ow_set"]

\* where a handler goes on when closeWalletsForUser returns
AfterClose(l) ==
    CASE l.ret = "ea_open" -> EnterOpen(l, TRUE)
      [] l.ret = "rc_open" ->
            IF l.shouldOpenWallet THEN EnterOpen(l, l.closeExisting)
            ELSE [l EXCEPT !.pc = "rc_mark"]
      [] OTHER -> [l EXCEPT !.pc = l.ret]

\* the documents the query of closeWalletsForUser returns, with the fields the batch copies
CloseSnapshot(u) == {<<w, wallets[w].quota_used>> : w \in ActiveWallets(u)}

\* mutant: the batch keeps quota_used whatever setRemainingToZero says
ClosedWalletKeepsUsed(data, used, reason, zero) ==
    [data EXCEPT !.status = "closed", !.quota_used = used, !.closed_reason = reason]

\* one document's batch.update
ClosedWallet(data, used, reason, zero) ==
    [data EXCEPT !.status = "closed",
                 !.quota_used = IF zero THEN data.quota_total ELSE used,
                 !.closed_reason = reason]

\* closeWalletsForUser: the query; an empty result returns at once
CloseQuery(p) ==
    /\ procs[p].pc = "cw_query"
    /\ LET l == procs[p]
           snap == CloseSnapshot(l.userId)
       IN procs' = [procs EXCEPT ![p] =
                      IF snap = {} THEN AfterClose(l)
                      ELSE [l EXCEPT !.pc = "cw_commit", !.snap = snap]]
    /\ NoReturn
    /\ UNCHANGED <<now, subs, wallets, usages, webhooks, applied, quotas>>

\* closeWalletsForUser: batch.commit() of the updates built from the query's snapshot
CloseCommit(p) ==
    /\ procs[p].pc = "cw_commit"
    /\ LET l == procs[p]
       IN /\ wallets' = [w \in WalletIds |->
                           IF \E e \in l.snap : e[1] = w
                           THEN ClosedWallet(wallets[w], (CHOOSE e \in l.snap : e[1] = w)[2],
                                             l.reason, l.setRemainingToZero)
                           ELSE wallets[w]]
          /\ procs' = [procs EXCEPT ![p] = AfterClose([l EXCEPT !.snap = {}])]
    /\ NoReturn
    /\ UNCHANGED <<now, subs, usages, webhooks, applied, quotas>>

\* the wallet document openWalletForSubscription writes
NewWallet(u, subscription) ==
    [user_id |-> u,
     plan_id |-> subscription.plan_id,
     period_end |-> subscription.current_period_end,
     quota_total |-> getPlanConfigById(subscription.plan_id).quota,
     quota_used |-> 0,
     status |-> "active",
     closed_reason |-> Null]


\* openWalletForSubscription: walletRef.set(wallet)
OpenSet(p) ==
    /\ procs[p].pc = "ow_set"
    /\ LET l == procs[p]
       IN /\ wallets' = Append(wallets, NewWallet(l.userId, l.subscription))
          /\ procs' = [procs EXCEPT ![p] = AfterOpen(l, Len(wallets) + 1)]
    /\ NoReturn
    /\ UNCHANGED <<now, subs, usages, webhooks, applied, quotas>>

----------------------------------------------------------------------------
\* reserveUsage

\* mutant: an empty requestId is answered as a reservation
EmptyRequestResultReserved(u, r) == Result("reserve", u, r, TRUE, "reserved", 0, 0)

\* what reserveUsage returns for an empty requestId
EmptyRequestResult(u, r) == Rejected(u, r, 0, 0)

\* reserveUsage is called; an empty requestId is rejected before any store access
StartReserve(p, u, r, amount) ==
    /\ CanStart(p)
    /\ IF r = ""
       THEN Return(p, EmptyRequestResult(u, r))
       ELSE /\ procs' = [procs EXCEPT ![p] =
                  [IdleProc EXCEPT !.pc = "rs_getsub", !.op = "reserve", !.userId = u,
                                   !.requestId = r, !.amount = amount]]
            /\ NoReturn
    /\ UNCHANGED <<now, subs, wallets, usages, webhooks, applied, quotas>>

\* mutant: an inactive subscription passes
SubscriptionUsableIfExists(subscription) == subscription.exists

\* reserveUsage goes on: the subscription exists and is active
SubscriptionUsable(subscription) == subscription.exists /\ subscription.is_active

\* getSubscription returns; ensureActiveWallet runs up to its getActiveWallet query
ReserveGetSubscription(p) ==
    /\ procs[p].pc = "rs_getsub"
    /\ LET l == procs[p]
           subscription == subs[l.userId]
       IN IF ~SubscriptionUsable(subscription)
             \/ getPlanConfigById(subscription.plan_id) = NoPlan
          THEN Return(p, Rejected(l.userId, l.requestId, 0, 0))
          ELSE /\ procs' = [procs EXCEPT ![p] =
                     [l EXCEPT !.pc = "ea_query", !.subscription = subscription, !.now = now]]
               /\ NoReturn
    /\ UNCHANGED <<now, subs, wallets, usages, webhooks, applied, quotas>>

\* mutant: the wallet is kept only when its end is more than a day away
WalletStillValidNextDay(existingWallet, subscription, nowAt) ==
    /\ existingWallet # 0
    /\ LET walletEnd == wallets[existingWallet].period_end
           endDate == IF walletEnd # NoTime THEN walletEnd ELSE subscription.current_period_end
       IN endDate # NoTime /\ endDate > nowAt + 1

\* ensureActiveWallet keeps the wallet it found: its effective end is after now
WalletStillValid(existingWallet, subscription, nowAt) ==
    /\ existingWallet # 0
    /\ LET walletEnd == wallets[existingWallet].period_end
           endDate == IF walletEnd # NoTime THEN walletEnd ELSE subscription.current_period_end
       IN endDate # NoTime /\ endDate > nowAt

PeriodMissing(subscription) ==
    subscription.current_period_start = NoTime \/ subscription.current_period_end = NoTime

\* ensureActiveWallet after its getActiveWallet query returned existingWallet
EnsureActiveWalletQuery(p) ==
    /\ procs[p].pc = "ea_query"
    /\ \E existingWallet \in getActiveWallet(procs[p].userId) :
         LET l == procs[p]
         IN IF WalletStillValid(existingWallet, l.subscription, l.now)
               \/ (PeriodMissing(l.subscription) /\ existingWallet # 0)
            THEN /\ procs' = [procs EXCEPT ![p] = [l EXCEPT !.pc = "rs_tx", !.wallet = existingWallet]]
                 /\ NoReturn
            ELSE IF PeriodMissing(l.subscription)
            THEN Return(p, Rejected(l.userId, l.requestId, 0, 0))
            ELSE /\ procs' = [procs EXCEPT ![p] = EnterClose(l, "period_reset", FALSE, "ea_open")]
                 /\ NoReturn
    /\ UNCHANGED <<now, subs, wallets, usages, webhooks, applied, quotas>>

\* mutant: a replay is allowed whatever the record's status
ReplayResultAlwaysAllowed(u, r, walletId, walletData, existingUsage) ==
    Result("reserve", u, r, TRUE, existingUsage.status, Remaining(walletData), walletId)

\* mutant: a replay always reports the reservation as reserved
ReplayResultAlwaysReserved(u, r, walletId, walletData, existingUsage) ==
    Result("reserve", u, r, TRUE, "reserved", Remaining(walletData), walletId)

\* what reserveUsage returns when the usage document already exists
ReplayResult(u, r, walletId, walletData, existingUsage) ==
    Result("reserve", u, r, existingUsage.status # "rolled_back", existingUsage.status,
           Remaining(walletData), walletId)

\* mutant: a closed wallet is reported with nothing remaining
WalletClosedResultNoRemaining(u, r, walletId, walletData) == Rejected(u, r, 0, walletId)

\* what reserveUsage returns when the transaction finds the wallet no longer active
WalletClosedResult(u, r, walletId, walletData) ==
    Rejected(u, r, Remaining(walletData), walletId)

\* mutant: a reservation that fills the wallet exactly does not fit
ReserveFitsBelowTotal(walletData, amount) ==
    walletData.quota_used + amount < walletData.quota_total

\* mutant: the limit is compared with quota_used before the amount is added
ReserveFitsBeforeAdding(walletData, amount) == walletData.quota_used <= walletData.quota_total

\* mutant: the limit is not checked
ReserveFitsAlways(walletData, amount) == TRUE

\* the reservation fits the wallet
ReserveFits(walletData, amount) == walletData.quota_used + amount <= walletData.quota_total

\* the transaction of reserveUsage on the wallet and usage documents
ReserveTransaction(p) ==
    /\ procs[p].pc = "rs_tx"
    /\ LET l == procs[p]
           key == <<l.userId, l.requestId>>
           walletData == wallets[l.wallet]
           existingUsage == usages[key]
       IN IF l.wallet = 0
          THEN /\ Return(p, Rejected(l.userId, l.requestId, 0, 0))
               /\ UNCHANGED <<wallets, usages>>
          ELSE IF walletData.status # "active"
          THEN /\ Return(p, WalletClosedResult(l.userId, l.requestId, l.wallet, walletData))
               /\ UNCHANGED <<wallets, usages>>
          ELSE IF existingUsage.exists
          THEN /\ Return(p, ReplayResult(l.userId, l.requestId, l.wallet, walletData,
                                         existingUsage))
               /\ UNCHANGED <<wallets, usages>>
          ELSE IF ~ReserveFits(walletData, l.amount)
          THEN /\ Return(p, Rejected(l.userId, l.requestId, Remaining(walletData), l.wallet))
               /\ UNCHANGED <<wallets, usages>>
          ELSE /\ wallets' = [wallets EXCEPT ![l.wallet].quota_used = walletData.quota_used + l.amount]
               /\ usages' = [usages EXCEPT ![key] =
                     [exists |-> TRUE, wallet_id |-> l.wallet, amount |-> l.amount,
                      status |-> "reserved"]]
               /\ Return(p, Debited(l.userId, l.requestId,
                                    Max(0, walletData.quota_total - (walletData.quota_used + l.amount)),
                                    l.wallet, walletData.quota_used))
    /\ UNCHANGED <<now, subs, webhooks, applied, quotas>>

----------------------------------------------------------------------------
\* commitUsage and rollbackUsage: one transaction each

\* mutant: commitUsage leaves the status as it finds it
CommitStatusKept(usage) == usage.status

\* mutant: commitUsage without the rolled_back guard
CommitStatusUnguarded(usage) == "committed"

\* the status commitUsage leaves on a usage document
CommitStatus(usage) ==
    IF usage.status = "committed" THEN "committed"
    ELSE IF usage.status = "rolled_back" THEN "rolled_back"
    ELSE "committed"

CommitUsage(p, u, r) ==
    /\ procs[p].pc = "idle"
    /\ LET usage == usages[<<u, r>>]
       IN IF r = "" \/ ~usage.exists
          THEN /\ Return(p, Result("commit", u, r, FALSE, Null, 0, 0))
               /\ UNCHANGED usages
          ELSE /\ usages' = [usages EXCEPT ![<<u, r>>].status = CommitStatus(usage)]
               /\ Return(p, Result("commit", u, r, FALSE, CommitStatus(usage), 0, 0))
    /\ UNCHANGED <<now, subs, wallets, webhooks, applied, quotas>>

\* mutant: rollbackUsage without the committed guard
RollbackIsNoopOnlyRolledBack(usage) == usage.status = "rolled_back"

\* rollbackUsage leaves the record alone: it is already rolled_back or committed
RollbackIsNoop(usage) == usage.status = "rolled_back" \/ usage.status = "committed"

\* mutant: rollbackUsage gives nothing back to the wallet
RollbackNextUsedNoRefund(wallet, usage) == wallet.quota_used

\* mutant: rollbackUsage refunds one unit whatever the amount reserved
RollbackNextUsedOneUnit(wallet, usage) == Max(0, wallet.quota_used - 1)

\* the quota_used rollbackUsage writes back to the wallet
RollbackNextUsed(wallet, usage) == Max(0, wallet.quota_used - usage.amount)

RollbackUsage(p, u, r) ==
    /\ procs[p].pc = "idle"
    /\ LET usage == usages[<<u, r>>]
       IN IF r = "" \/ ~usage.exists
          THEN /\ Return(p, Result("rollback", u, r, FALSE, Null, 0, 0))
               /\ UNCHANGED <<usages, wallets>>
          ELSE IF RollbackIsNoop(usage)
          THEN /\ Return(p, Result("rollback", u, r, FALSE, usage.status, 0, 0))
               /\ UNCHANGED <<usages, wallets>>
          ELSE /\ wallets' = IF usage.wallet_id \in WalletIds
                             THEN [wallets EXCEPT ![usage.wallet_id].quota_used =
                                      RollbackNextUsed(wallets[usage.wallet_id], usage)]
                             ELSE wallets
               /\ usages' = [usages EXCEPT ![<<u, r>>].status = "rolled_back"]
               /\ Return(p, Result("rollback", u, r, FALSE, "rolled_back", 0, 0))
    /\ UNCHANGED <<now, subs, webhooks, applied, quotas>>


----------------------------------------------------------------------------
\* processRevenueCatEvent

\* (value || 'UNKNOWN').toUpperCase() on the event types the model feeds in
normalizeEventType(value) ==
    CASE value = Null \/ value = "" -> "UNKNOWN"
      [] value = "renewal" -> "RENEWAL"
      [] value = "cancellation" -> "CANCELLATION"
      [] OTHER -> value

\* the webhook_events document id: rc_<eventId>, else rc_<sha256 of the composite>;
\* the digest is kept as the composite it is taken of
getWebhookEventId(payload) ==
    IF payload.eventId # Null /\ payload.eventId # ""
    THEN [eventId |-> payload.eventId, userId |-> Null, eventType |-> Null,
          periodStart |-> NoTime, periodEnd |-> NoTime]
    ELSE [eventId |-> Null, userId |-> payload.userId, eventType |-> payload.eventType,
          periodStart |-> payload.periodStart, periodEnd |-> payload.periodEnd]

isPurchaseEvent(eventType) ==
    eventType \in {"INITIAL_PURCHASE", "RENEWAL", "PRODUCT_CHANGE", "UNCANCELLATION",
                   "SUBSCRIPTION_PURCHASE"}

\* mutant: no event type counts as a cancellation
isCancellationEventNever(eventType) == FALSE

isCancellationEvent(eventType) == eventType \in {"CANCELLATION", "CANCEL", "AUTO_RENEW_DISABLED"}

isExpirationEvent(eventType) == eventType \in {"EXPIRATION", "EXPIRE"}

isRefundEvent(eventType) == eventType \in {"REFUND", "CHARGEBACK"}

\* mutant: GRACE_PERIOD is not a billing issue
isBillingIssueEventNoGrace(eventType) ==
    eventType \in {"BILLING_ISSUE", "PAUSE", "BILLING_ISSUE_DETECTED"}

isBillingIssueEvent(eventType) ==
    eventType \in {"BILLING_ISSUE", "PAUSE", "BILLING_ISSUE_DETECTED", "GRACE_PERIOD"}

shouldCloseWalletStatus(status) == status \in {"expired", "refunded", "billing_issue"}

\* the target status of an event, by first match
EventStatus(eventType, existing) ==
    IF isRefundEvent(eventType) THEN "refunded"
    ELSE IF isExpirationEvent(eventType) THEN "expired"
    ELSE IF isBillingIssueEvent(eventType) THEN "billing_issue"
    ELSE IF isCancellationEvent(eventType) THEN "cancelled"
    ELSE IF isPurchaseEvent(eventType) THEN "active"
    ELSE IF existing.exists THEN existing.status
    ELSE "active"

\* resolvePlanConfig(productId) ?? getPlanConfigById(productId), else the existing plan
NextPlan(payload, existing) ==
    LET byProduct == resolvePlanConfig(payload.productId)
        planConfig == IF byProduct # NoPlan THEN byProduct ELSE getPlanConfigById(payload.productId)
    IN IF planConfig # NoPlan THEN planConfig
       ELSE IF existing.plan_id # Null THEN getPlanConfigById(existing.plan_id)
       ELSE NoPlan

NextPeriodEnd(payload, existing) ==
    IF payload.periodEnd # NoTime THEN payload.periodEnd ELSE existing.current_period_end

\* mutant: a change of plan is never noticed
PlanChangedNever(payload, existing) == FALSE

PlanChanged(payload, existing) ==
    /\ NextPlan(payload, existing) # NoPlan
    /\ existing.plan_id # Null
    /\ NextPlan(payload, existing).planId # existing.plan_id

\* mutant: a period end counts as changed also when none was stored
PeriodChangedUnguarded(payload, existing) ==
    /\ NextPeriodEnd(payload, existing) # NoTime
    /\ NextPeriodEnd(payload, existing) # existing.current_period_end

PeriodChanged(payload, existing) ==
    /\ NextPeriodEnd(payload, existing) # NoTime
    /\ existing.current_period_end # NoTime
    /\ NextPeriodEnd(payload, existing) # existing.current_period_end

\* the subscription document the state-transition transaction writes
NextSubscription(payload, existing) ==
    LET eventType == normalizeEventType(payload.eventType)
        status == EventStatus(eventType, existing)
        nextPlan == NextPlan(payload, existing)
    IN [exists |-> TRUE,
        plan_id |-> IF nextPlan # NoPlan THEN nextPlan.planId ELSE existing.plan_id,
        is_active |-> status = "active" \/ status = "cancelled",
        will_renew |-> IF payload.willRenew # Null THEN payload.willRenew = "true"
                       ELSE status = "active",
        status |-> status,
        current_period_start |-> IF payload.periodStart # NoTime THEN payload.periodStart
                                 ELSE existing.current_period_start,
        current_period_end |-> NextPeriodEnd(payload, existing)]

ShouldOpenWallet(payload, existing) ==
    /\ NextSubscription(payload, existing).is_active
    /\ \/ isPurchaseEvent(normalizeEventType(payload.eventType))
       \/ PlanChanged(payload, existing)
       \/ PeriodChanged(payload, existing)

ShouldCloseWallet(payload, existing) ==
    /\ shouldCloseWalletStatus(NextSubscription(payload, existing).status)
    /\ existing.is_active

\* mutant: the dedup transaction never finds the record
IsDuplicateNever(eventDocId) == FALSE

\* the dedup transaction finds the event's record
IsDuplicate(eventDocId) == eventDocId \in DOMAIN webhooks

\* processRevenueCatEvent is called: the dedup transaction on webhook_events
ProcessEventDedup(p, payload) ==
    /\ CanStart(p)
    /\ LET eventDocId == getWebhookEventId(payload)
       IN IF IsDuplicate(eventDocId)
          THEN /\ Return(p, Result("event", payload.userId, payload.eventId, FALSE, "duplicate", 0, 0))
               /\ UNCHANGED <<webhooks, applied>>
          ELSE /\ Cardinality(DOMAIN webhooks) < MaxEvents
               /\ webhooks' = [d \in DOMAIN webhooks \cup {eventDocId} |->
                                 IF d = eventDocId THEN "received" ELSE webhooks[d]]
               /\ applied' = [d \in DOMAIN webhooks \cup {eventDocId} |->
                                 IF d \in DOMAIN applied THEN applied[d] ELSE 0]
               /\ procs' = [procs EXCEPT ![p] =
                     [IdleProc EXCEPT !.pc = "rc_subtx", !.op = "event", !.userId = payload.userId,
                                      !.payload = payload, !.eventDocId = eventDocId]]
               /\ NoReturn
    /\ UNCHANGED <<now, subs, wallets, usages, quotas>>

\* the state-transition transaction on the subscription document, and the side
\* effects it decides
ProcessEventSubscription(p) ==
    /\ procs[p].pc = "rc_subtx"
    /\ LET l == procs[p]
           existing == subs[l.userId]
           nextSubscription == NextSubscription(l.payload, existing)
           l2 == [l EXCEPT !.subscription = nextSubscription,
                           !.shouldOpenWallet = ShouldOpenWallet(l.payload, existing),
                           !.closeExisting = PlanChanged(l.payload, existing)
                                             \/ PeriodChanged(l.payload, existing),
                           !.existingActive = existing.is_active,
                           !.existingPlan = existing.plan_id,
                           !.activeBefore = ActiveWallets(l.userId)]
       IN /\ subs' = [subs EXCEPT ![l.userId] = nextSubscription]
          /\ applied' = [applied EXCEPT ![l.eventDocId] = @ + 1]
          /\ procs' = [procs EXCEPT ![p] =
                IF ShouldCloseWallet(l.payload, existing)
                THEN EnterClose(l2, nextSubscription.status, TRUE, "rc_open")
                ELSE IF l2.shouldOpenWallet THEN EnterOpen(l2, l2.closeExisting)
                ELSE [l2 EXCEPT !.pc = "rc_mark"]]
    /\ NoReturn
    /\ UNCHANGED <<now, wallets, usages, webhooks, quotas>>

\* the event's record is marked processed and the handler returns
ProcessEventMark(p) ==
    /\ procs[p].pc = "rc_mark"
    /\ webhooks' = [webhooks EXCEPT ![procs[p].eventDocId] = "processed"]
    /\ Return(p, Result("event", procs[p].userId, procs[p].payload.eventId, FALSE, "processed",
                        0, 0))
    /\ UNCHANGED <<now, subs, wallets, usages, applied, quotas>>

\* a store call of processRevenueCatEvent after the dedup transaction fails: the call
\* writes nothing, the error reaches the caller and the handler is over
FailEvent(p) ==
    /\ procs[p].op = "event"
    /\ procs[p].pc \in {"rc_subtx", "cw_query", "cw_commit", "ow_set", "rc_mark"}
    /\ Return(p, Result("event", procs[p].userId, procs[p].payload.eventId, FALSE, "error", 0, 0))
    /\ UNCHANGED <<now, subs, wallets, usages, webhooks, applied, quotas>>

\* the clock advances
Tick ==
    /\ now < MaxTime
    /\ now' = now + 1
    /\ NoReturn
    /\ UNCHANGED <<subs, wallets, usages, webhooks, procs, applied, quotas>>

----------------------------------------------------------------------------
\* syncQuotaFromPlan and ensureQuotaForUser

resolvePlanId(candidate) == resolvePlanConfig(candidate).planId

\* The clock counts whole UTC days; day 0 is 1 January of EpochYear.  Months are numbered
\* from 0 as in Date.
EpochYear == 2024

MonthsPerYear == 12

IsLeapYear(year) == (year % 4 = 0 /\ year % 100 # 0) \/ year % 400 = 0

DaysInYear(year) == IF IsLeapYear(year) THEN 366 ELSE 365

DaysInMonth(year, month) ==
    CASE month = 1 -> IF IsLeapYear(year) THEN 29 ELSE 28
      [] month \in {3, 5, 8, 10} -> 30
      [] OTHER -> 31

RECURSIVE DaysBeforeYear(_)
DaysBeforeYear(year) ==
    IF year <= EpochYear THEN 0 ELSE DaysInYear(year - 1) + DaysBeforeYear(year - 1)

RECURSIVE DaysBeforeMonth(_, _)
DaysBeforeMonth(year, month) ==
    IF month = 0 THEN 0 ELSE DaysInMonth(year, month - 1) + DaysBeforeMonth(year, month - 1)

\* Date.UTC(year, month, date): a month past December carries into the year and a date past
\* the end of the month carries into the following months
DateUTC(year, month, date) ==
    LET y == year + (month \div MonthsPerYear)
        m == month % MonthsPerYear
    IN DaysBeforeYear(y) + DaysBeforeMonth(y, m) + (date - 1)

RECURSIVE YearOfDay(_, _)
YearOfDay(year, days) ==
    IF days < DaysInYear(year) THEN year ELSE YearOfDay(year + 1, days - DaysInYear(year))

RECURSIVE MonthOfDay(_, _, _)
MonthOfDay(year, month, days) ==
    IF days < DaysInMonth(year, month) THEN month
    ELSE MonthOfDay(year, month + 1, days - DaysInMonth(year, month))

getUTCFullYear(t) == YearOfDay(EpochYear, t)

getUTCMonth(t) ==
    LET year == getUTCFullYear(t) IN MonthOfDay(year, 0, t - DaysBeforeYear(year))

getUTCDate(t) ==
    LET year == getUTCFullYear(t)
    IN t - DaysBeforeYear(year) - DaysBeforeMonth(year, getUTCMonth(t)) + 1

\* mutant: the period is a fixed number of days
SyncPeriodEndFixedLength(planConfig, nowAt) ==
    IF planConfig.cycle = "monthly" THEN nowAt + DaysInMonth(EpochYear, 0)
    ELSE nowAt + DaysInYear(EpochYear + 1)

\* the synthetic period end: the first day of the next month, or one year ahead
SyncPeriodEnd(planConfig, nowAt) ==
    IF planConfig.cycle = "monthly"
    THEN DateUTC(getUTCFullYear(nowAt), getUTCMonth(nowAt) + 1, 1)
    ELSE DateUTC(getUTCFullYear(nowAt) + 1, getUTCMonth(nowAt), getUTCDate(nowAt))

\* mutant: the plan sync marks every plan active
SyncSubscriptionAllActive(planConfig, nowAt) ==
    [exists |-> TRUE, plan_id |-> planConfig.planId, is_active |-> TRUE, will_renew |-> TRUE,
     status |-> IF planConfig.planId # "free" THEN "active" ELSE "expired",
     current_period_start |-> nowAt, current_period_end |-> SyncPeriodEnd(planConfig, nowAt)]

\* the subscription document syncQuotaFromPlan writes
SyncSubscription(planConfig, nowAt) ==
    [exists |-> TRUE,
     plan_id |-> planConfig.planId,
     is_active |-> planConfig.planId # "free",
     will_renew |-> planConfig.planId # "free",
     status |-> IF planConfig.planId # "free" THEN "active" ELSE "expired",
     current_period_start |-> nowAt,
     current_period_end |-> SyncPeriodEnd(planConfig, nowAt)]

\* syncQuotaFromPlan for handler record l: an unknown plan is skipped; else the subscription
\* is set, and a plan other than free goes on to openWalletForSubscription(.., true)
SyncSet(p, l, candidate) ==
    LET planId == resolvePlanId(candidate)
        planConfig == IF planId # Null THEN getPlanConfigById(planId) ELSE NoPlan
        subscription == SyncSubscription(planConfig, now)
    IN IF planConfig = NoPlan
       THEN /\ procs' = [procs EXCEPT ![p] = [l EXCEPT !.pc = "sq_ret"]]
            /\ UNCHANGED subs
       ELSE /\ subs' = [subs EXCEPT ![l.userId] = subscription]
            /\ procs' = [procs EXCEPT ![p] =
                  IF planConfig.planId # "free"
                  THEN EnterOpen([l EXCEPT !.subscription =
                                     [subscription EXCEPT !.is_active = TRUE, !.will_renew = TRUE,
                                                          !.status = "active"]], TRUE)
                  ELSE [l EXCEPT !.pc = "sq_ret"]]

\* syncQuotaFromPlan is called
SyncQuotaFromPlan(p, u, planIdCandidate) ==
    /\ CanStart(p)
    /\ SyncSet(p, [IdleProc EXCEPT !.op = "sync", !.userId = u,
                                   !.planIdCandidate = planIdCandidate], planIdCandidate)
    /\ NoReturn
    /\ UNCHANGED <<now, wallets, usages, webhooks, applied, quotas>>

\* ensureQuotaForUser is called: getSubscription; the users_quota record it touches first
\* holds the id, the email and timestamps, which no operation reads
EnsureQuotaForUser(p, u, premium, entitlementProductId) ==
    /\ CanStart(p)
    /\ LET l == [IdleProc EXCEPT !.op = "ensure", !.userId = u,
                                 !.planIdCandidate = resolvePlanId(entitlementProductId)]
       IN procs' = [procs EXCEPT ![p] =
             IF subs[u].exists \/ ~premium \/ l.planIdCandidate = Null
             THEN [l EXCEPT !.pc = "sq_ret"]
             ELSE [l EXCEPT !.pc = "sq_set"]]
    /\ NoReturn
    /\ UNCHANGED <<now, subs, wallets, usages, webhooks, applied, quotas>>

\* ensureQuotaForUser found no subscription for a premium user: syncQuotaFromPlan
EnsureSync(p) ==
    /\ procs[p].pc = "sq_set"
    /\ SyncSet(p, procs[p], procs[p].planIdCandidate)
    /\ NoReturn
    /\ UNCHANGED <<now, wallets, usages, webhooks, applied, quotas>>

\* syncQuotaFromPlan returns; ensureQuotaForUser reads the snapshot it returns
SyncReturn(p) ==
    /\ procs[p].pc = "sq_ret"
    /\ Return(p, Result(procs[p].op, procs[p].userId, Null, FALSE, Null, 0, 0))
    /\ UNCHANGED <<now, subs, wallets, usages, webhooks, applied, quotas>>

----------------------------------------------------------------------------
\* Calls running one after another on an empty store

\* the billing events delivered: a purchase of the free plan for period [0, 1), then a
\* renewal to period end 2
Payloads ==
    { [userId |-> "u1", eventId |-> "e1", eventType |-> "INITIAL_PURCHASE", productId |-> "free",
       willRenew |-> Null, periodStart |-> 0, periodEnd |-> 1],
      [userId |-> "u1", eventId |-> "e2", eventType |-> "RENEWAL", productId |-> Null,
       willRenew |-> Null, periodStart |-> 1, periodEnd |-> 2] }

EmptyStore ==
    /\ now = 0
    /\ subs = [u \in Users |-> NoSub]
    /\ wallets = << >>
    /\ usages = [k \in Users \X ReqIds |-> NoUsage]
    /\ webhooks = << >>
    /\ applied = << >>
    /\ returned = NoResult
    /\ prev = [k \in Users \X ReqIds |-> NoPrev]
    /\ quotas = [u \in Users |-> NoQuota]

Init ==
    /\ EmptyStore
    /\ procs = [p \in {1} |-> IdleProc]

\* the steps of a handler that has been called
Step(p) ==
    \/ ReserveGetSubscription(p)
    \/ EnsureActiveWalletQuery(p)
    \/ CloseQuery(p)
    \/ CloseCommit(p)
    \/ OpenSet(p)
    \/ ReserveTransaction(p)
    \/ ProcessEventSubscription(p)
    \/ ProcessEventMark(p)

Next ==
    \/ \E p \in DOMAIN procs, u \in Users, r \in ReqIds \cup {""}, a \in Amounts :
          StartReserve(p, u, r, a)
    \/ \E p \in DOMAIN procs, u \in Users, r \in ReqIds : CommitUsage(p, u, r)
    \/ \E p \in DOMAIN procs, u \in Users, r \in ReqIds : RollbackUsage(p, u, r)
    \/ \E p \in DOMAIN procs, payload \in Payloads : ProcessEventDedup(p, payload)
    \/ \E p \in DOMAIN procs : Step(p)
    \/ Tick

Spec == Init /\ [][Next]_vars


----------------------------------------------------------------------------
\* Billing events of every class delivered one after another, with a Reserve between them

BillingEventTypes ==
    {"INITIAL_PURCHASE", "RENEWAL", "PRODUCT_CHANGE", "CANCELLATION", "EXPIRATION", "REFUND",
     "BILLING_ISSUE", "GRACE_PERIOD", "TRANSFER"}

BillingPayloads ==
    [userId : Users, eventId : {"e1", "e2"}, eventType : BillingEventTypes,
     productId : {Null, "aiorreal-monthly", "aiorreal-yearly"},
     willRenew : {Null}, periodStart : {0}, periodEnd : {NoTime, 1, 2}]

NextBilling ==
    \/ \E p \in DOMAIN procs, payload \in BillingPayloads : ProcessEventDedup(p, payload)
    \/ \E p \in DOMAIN procs, u \in Users : StartReserve(p, u, "r1", 1)
    \/ \E p \in DOMAIN procs : Step(p)
    \/ Tick

SpecBilling == Init /\ [][NextBilling]_vars

----------------------------------------------------------------------------
\* Two handlers whose store round trips interleave

RacePayloads ==
    { [userId |-> "u1", eventId |-> "e1", eventType |-> "INITIAL_PURCHASE", productId |-> "free",
       willRenew |-> Null, periodStart |-> 0, periodEnd |-> 1] }

InitRace ==
    /\ EmptyStore
    /\ procs = [p \in {1, 2} |-> IdleProc]

NextRace ==
    \/ \E p \in DOMAIN procs, payload \in RacePayloads : ProcessEventDedup(p, payload)
    \/ \E p \in DOMAIN procs, u \in Users, r \in ReqIds : StartReserve(p, u, r, 1)
    \/ \E p \in DOMAIN procs : Step(p)
    \/ Tick

SpecRace == InitRace /\ [][NextRace]_vars

----------------------------------------------------------------------------
\* Billing events, with and without a provider event id, delivered by two handlers at once

DeliveryPayloads ==
    { [userId |-> "u1", eventId |-> "e1", eventType |-> "INITIAL_PURCHASE",
       productId |-> "aiorreal-monthly", willRenew |-> Null, periodStart |-> 0, periodEnd |-> 1],
      [userId |-> "u1", eventId |-> Null, eventType |-> "RENEWAL", productId |-> Null,
       willRenew |-> Null, periodStart |-> 1, periodEnd |-> 2],
      [userId |-> "u1", eventId |-> Null, eventType |-> "REFUND", productId |-> Null,
       willRenew |-> Null, periodStart |-> NoTime, periodEnd |-> NoTime] }

NextDelivery ==
    \/ \E p \in DOMAIN procs, payload \in DeliveryPayloads : ProcessEventDedup(p, payload)
    \/ \E p \in DOMAIN procs : Step(p)
    \/ Tick

SpecDelivery == InitRace /\ [][NextDelivery]_vars


----------------------------------------------------------------------------
\* Plan syncs and billing events, one after another

PlanCandidates == {"free", "PREMIUM_MONTHLY", "aiorreal-yearly", "gold"}

PlanPayloads ==
    { [userId |-> "u1", eventId |-> "e1", eventType |-> "INITIAL_PURCHASE", productId |-> "free",
       willRenew |-> Null, periodStart |-> 0, periodEnd |-> 1],
      [userId |-> "u1", eventId |-> "e2", eventType |-> "CANCELLATION", productId |-> Null,
       willRenew |-> Null, periodStart |-> NoTime, periodEnd |-> NoTime],
      [userId |-> "u1", eventId |-> "e3", eventType |-> "TRANSFER", productId |-> Null,
       willRenew |-> Null, periodStart |-> NoTime, periodEnd |-> NoTime],
      [userId |-> "u1", eventId |-> "e4", eventType |-> "EXPIRATION", productId |-> Null,
       willRenew |-> Null, periodStart |-> NoTime, periodEnd |-> NoTime] }

NextSync ==
    \/ \E p \in DOMAIN procs, u \in Users, c \in PlanCandidates : SyncQuotaFromPlan(p, u, c)
    \/ \E p \in DOMAIN procs, u \in Users, premium \in BOOLEAN,
          c \in {Null, "ai_or_real_premium:aiorreal-monthly"} : EnsureQuotaForUser(p, u, premium, c)
    \/ \E p \in DOMAIN procs : EnsureSync(p)
    \/ \E p \in DOMAIN procs : SyncReturn(p)
    \/ \E p \in DOMAIN procs, payload \in PlanPayloads : ProcessEventDedup(p, payload)
    \/ \E p \in DOMAIN procs : Step(p)
    \/ Tick

SpecPlan == Init /\ [][NextSync]_vars

----------------------------------------------------------------------------
\* Plan syncs on every day of two years, the first a leap year

CalendarDays == 0 .. (DaysInYear(EpochYear) + DaysInYear(EpochYear + 1) - 1)

CalendarCandidates == {"free", "PREMIUM_MONTHLY", "aiorreal-yearly"}

InitCalendar ==
    /\ now \in CalendarDays
    /\ subs = [u \in Users |-> NoSub]
    /\ wallets = << >>
    /\ usages = [k \in Users \X ReqIds |-> NoUsage]
    /\ webhooks = << >>
    /\ applied = << >>
    /\ returned = NoResult
    /\ prev = [k \in Users \X ReqIds |-> NoPrev]
    /\ quotas = [u \in Users |-> NoQuota]
    /\ procs = [p \in {1} |-> IdleProc]

NextCalendar ==
    \/ \E p \in DOMAIN procs, u \in Users, c \in CalendarCandidates : SyncQuotaFromPlan(p, u, c)
    \/ \E p \in DOMAIN procs : SyncReturn(p)
    \/ \E p \in DOMAIN procs : CloseQuery(p)
    \/ \E p \in DOMAIN procs : CloseCommit(p)
    \/ \E p \in DOMAIN procs : OpenSet(p)

SpecCalendar == InitCalendar /\ [][NextCalendar]_vars

----------------------------------------------------------------------------
\* A user of the free plan: plan syncs, a purchase of the free product, and Reserves of
\* three requests, one after another

PlanReqIds == {"r1", "r2", "r3"}

FreePayloads ==
    { [userId |-> "u1", eventId |-> "e1", eventType |-> "INITIAL_PURCHASE", productId |-> "free",
       willRenew |-> Null, periodStart |-> 0, periodEnd |-> 1] }

InitFree ==
    /\ now = 0
    /\ subs = [u \in Users |-> NoSub]
    /\ wallets = << >>
    /\ usages = [k \in Users \X PlanReqIds |-> NoUsage]
    /\ webhooks = << >>
    /\ applied = << >>
    /\ returned = NoResult
    /\ prev = [k \in Users \X ReqIds |-> NoPrev]
    /\ quotas = [u \in Users |-> NoQuota]
    /\ procs = [p \in {1} |-> IdleProc]

NextFree ==
    \/ \E p \in DOMAIN procs, u \in Users : SyncQuotaFromPlan(p, u, "free")
    \/ \E p \in DOMAIN procs, u \in Users : EnsureQuotaForUser(p, u, FALSE, Null)
    \/ \E p \in DOMAIN procs : SyncReturn(p)
    \/ \E p \in DOMAIN procs, payload \in FreePayloads : ProcessEventDedup(p, payload)
    \/ \E p \in DOMAIN procs, u \in Users, r \in PlanReqIds : StartReserve(p, u, r, 1)
    \/ \E p \in DOMAIN procs : Step(p)
    \/ Tick

SpecFree == InitFree /\ [][NextFree]_vars

----------------------------------------------------------------------------
\* Reserves of one or two units for three requests against the free plan's quota

NextQuota ==
    \/ \E p \in DOMAIN procs, payload \in FreePayloads : ProcessEventDedup(p, payload)
    \/ \E p \in DOMAIN procs, u \in Users, r \in PlanReqIds, amount \in Amounts :
          StartReserve(p, u, r, amount)
    \/ \E p \in DOMAIN procs : Step(p)
    \/ Tick

SpecQuota == InitFree /\ [][NextQuota]_vars

----------------------------------------------------------------------------
\* Reserves and Rollbacks around a purchase and its refund, one after another

RefundPayloads ==
    { [userId |-> "u1", eventId |-> "e1", eventType |-> "INITIAL_PURCHASE", productId |-> "free",
       willRenew |-> Null, periodStart |-> 0, periodEnd |-> 1],
      [userId |-> "u1", eventId |-> "e2", eventType |-> "REFUND", productId |-> Null,
       willRenew |-> Null, periodStart |-> NoTime, periodEnd |-> NoTime] }

NextRefund ==
    \/ \E p \in DOMAIN procs, payload \in RefundPayloads : ProcessEventDedup(p, payload)
    \/ \E p \in DOMAIN procs, u \in Users, r \in ReqIds : StartReserve(p, u, r, 1)
    \/ \E p \in DOMAIN procs, u \in Users, r \in ReqIds : RollbackUsage(p, u, r)
    \/ \E p \in DOMAIN procs : Step(p)
    \/ Tick

SpecRefund == Init /\ [][NextRefund]_vars

----------------------------------------------------------------------------
\* A Reserve and the purchase and refund events, by two handlers at once

NextRevoke ==
    \/ \E p \in DOMAIN procs, payload \in RefundPayloads : ProcessEventDedup(p, payload)
    \/ \E p \in DOMAIN procs, u \in Users : StartReserve(p, u, "r1", 1)
    \/ \E p \in DOMAIN procs : Step(p)

SpecRevoke == InitRace /\ [][NextRevoke]_vars

----------------------------------------------------------------------------
\* A subscription cancelled and uncancelled again and again within one period; the
\* provider's events carry no event id

TogglePayloads ==
    [userId : Users, eventId : {Null}, eventType : {"UNCANCELLATION", "CANCELLATION"},
     productId : {"free"}, willRenew : {Null}, periodStart : {0}, periodEnd : {1}]

NextToggle ==
    \/ \E p \in DOMAIN procs, payload \in TogglePayloads : ProcessEventDedup(p, payload)
    \/ \E p \in DOMAIN procs, u \in Users, r \in ReqIds : StartReserve(p, u, r, 1)
    \/ \E p \in DOMAIN procs : Step(p)
    \/ Tick

SpecToggle == Init /\ [][NextToggle]_vars

----------------------------------------------------------------------------
\* Reserves of one unit and of more than the plan's quota, before and after the period end

\* an amount no wallet of the free plan can hold
OverQuota == FreeQuota + 1

NextRollover ==
    \/ \E p \in DOMAIN procs, payload \in RacePayloads : ProcessEventDedup(p, payload)
    \/ \E p \in DOMAIN procs, u \in Users, r \in ReqIds, amount \in {1, OverQuota} :
          StartReserve(p, u, r, amount)
    \/ \E p \in DOMAIN procs : Step(p)
    \/ Tick

SpecRollover == Init /\ [][NextRollover]_vars

----------------------------------------------------------------------------
\* Reserves whose amount is negative, zero or one

AnyAmounts == {-1, 0, 1}

NextAmount ==
    \/ \E p \in DOMAIN procs, payload \in RacePayloads : ProcessEventDedup(p, payload)
    \/ \E p \in DOMAIN procs, u \in Users, r \in ReqIds, amount \in AnyAmounts :
          StartReserve(p, u, r, amount)
    \/ \E p \in DOMAIN procs, u \in Users, r \in ReqIds : RollbackUsage(p, u, r)
    \/ \E p \in DOMAIN procs : Step(p)
    \/ Tick

SpecAmount == Init /\ [][NextAmount]_vars

----------------------------------------------------------------------------
\* One renewal delivered without provider event id, its type in upper and in lower case,
\* with Reserves between the deliveries

CasePayloads ==
    [userId : Users, eventId : {Null}, eventType : {"RENEWAL", "renewal"}, productId : {"free"},
     willRenew : {Null}, periodStart : {0}, periodEnd : {1}]

NextCase ==
    \/ \E p \in DOMAIN procs, payload \in CasePayloads : ProcessEventDedup(p, payload)
    \/ \E p \in DOMAIN procs, u \in Users, r \in ReqIds : StartReserve(p, u, r, 1)
    \/ \E p \in DOMAIN procs : Step(p)
    \/ Tick

SpecCase == Init /\ [][NextCase]_vars

----------------------------------------------------------------------------
\* Two handlers reserving one or two units for different requests at the same time

\* the requests and their amounts: together they exceed the free plan's quota
LedgerRequests == {<<"r1", 2>>, <<"r2", 1>>}

NextLedger ==
    \/ \E p \in DOMAIN procs, payload \in RacePayloads : ProcessEventDedup(p, payload)
    \/ \E p \in DOMAIN procs, u \in Users, q \in LedgerRequests : StartReserve(p, u, q[1], q[2])
    \/ \E p \in DOMAIN procs : Step(p)

SpecLedger == InitRace /\ [][NextLedger]_vars

----------------------------------------------------------------------------
\* Billing events whose store calls may fail, delivered again by the provider

RetryPayloads ==
    { [userId |-> "u1", eventId |-> "e1", eventType |-> "INITIAL_PURCHASE",
       productId |-> "aiorreal-monthly", willRenew |-> Null, periodStart |-> 0, periodEnd |-> 1],
      [userId |-> "u1", eventId |-> "e2", eventType |-> "REFUND", productId |-> Null,
       willRenew |-> Null, periodStart |-> NoTime, periodEnd |-> NoTime] }

NextRetry ==
    \/ \E p \in DOMAIN procs, payload \in RetryPayloads : ProcessEventDedup(p, payload)
    \/ \E p \in DOMAIN procs : FailEvent(p)
    \/ \E p \in DOMAIN procs, u \in Users : StartReserve(p, u, "r1", 1)
    \/ \E p \in DOMAIN procs : Step(p)
    \/ Tick

SpecRetry == Init /\ [][NextRetry]_vars

\* the same calls, where a handler that has been called and whose store calls succeed
\* goes on to its end
SpecRetryFair == SpecRetry /\ WF_vars(\E p \in DOMAIN procs : Step(p))

----------------------------------------------------------------------------
\* A purchase and the events that change the subscription's standing, without provider
\* event ids, one after another, with Reserves between them

StatusPayloads ==
    { [userId |-> "u1", eventId |-> Null, eventType |-> "INITIAL_PURCHASE",
       productId |-> "aiorreal-monthly", willRenew |-> Null, periodStart |-> 0, periodEnd |-> 1] }
    \cup [userId : Users, eventId : {Null},
          eventType : {"GRACE_PERIOD", "BILLING_ISSUE", "PAUSE", "CANCELLATION"},
          productId : {Null}, willRenew : {Null}, periodStart : {NoTime}, periodEnd : {NoTime}]
    \cup [userId : Users, eventId : {Null}, eventType : {"CANCELLATION"},
          productId : {Null}, willRenew : {"true"}, periodStart : {NoTime}, periodEnd : {NoTime, 2}]

NextStatus ==
    \/ \E p \in DOMAIN procs, payload \in StatusPayloads : ProcessEventDedup(p, payload)
    \/ \E p \in DOMAIN procs, u \in Users, r \in ReqIds : StartReserve(p, u, r, 1)
    \/ \E p \in DOMAIN procs : Step(p)
    \/ Tick

SpecStatus == Init /\ [][NextStatus]_vars

----------------------------------------------------------------------------
\* Events of every type the handler classifies, in upper and lower case, unclassified
\* and without a type, two in a row

ClassifyEventTypes ==
    {"REFUND", "CHARGEBACK", "EXPIRATION", "EXPIRE", "BILLING_ISSUE", "PAUSE",
     "BILLING_ISSUE_DETECTED", "GRACE_PERIOD", "CANCELLATION", "CANCEL", "AUTO_RENEW_DISABLED",
     "INITIAL_PURCHASE", "RENEWAL", "PRODUCT_CHANGE", "UNCANCELLATION", "SUBSCRIPTION_PURCHASE",
     "renewal", "cancellation", "TRANSFER", Null}

ClassifyPayloads ==
    [userId : Users, eventId : {"e1", "e2"}, eventType : ClassifyEventTypes,
     productId : {"aiorreal-monthly"}, willRenew : {Null}, periodStart : {0}, periodEnd : {1}]

NextClassify ==
    \/ \E p \in DOMAIN procs, payload \in ClassifyPayloads : ProcessEventDedup(p, payload)
    \/ \E p \in DOMAIN procs : Step(p)

SpecClassify == Init /\ [][NextClassify]_vars

----------------------------------------------------------------------------
\* Properties

\* the events recorded for user u are of exactly the types given, and all are processed
OnlyProcessed(u, types) ==
    /\ {normalizeEventType(d.eventType) : d \in DOMAIN webhooks} = types
    /\ \A d \in DOMAIN webhooks : d.userId = u /\ webhooks[d] = "processed"

\* a Reserve of a request that has no usage record returns for user u in this step,
\* before the end of the subscription's period
FreshReserveReturns(u) ==
    /\ returned'.op = "reserve"
    /\ returned'.userId = u
    /\ returned'.requestId \in ReqIds
    /\ ~usages[<<u, returned'.requestId>>].exists
    /\ now < subs[u].current_period_end

RECURSIVE SumAmounts(_, _)
\* the sum of amount over the usage records keys that are debited from wallet w
SumAmounts(keys, w) ==
    IF keys = {} THEN 0
    ELSE LET k == CHOOSE x \in keys : TRUE
         IN (IF usages[k].exists /\ usages[k].wallet_id = w THEN usages[k].amount ELSE 0)
            + SumAmounts(keys \ {k}, w)

ActiveCount(u) == Cardinality(ActiveWallets(u))

AllIdle == \A p \in DOMAIN procs : procs[p].pc = "idle"

\* handler p takes the step
StepOf(p) == procs'[p] # procs[p]

\* C1: after every call, every wallet has 0 <= quotaUsed <= quotaTotal.
C1_QuotaWithinTotal ==
    \A w \in WalletIds :
        /\ 0 <= wallets[w].quota_used
        /\ wallets[w].quota_used <= wallets[w].quota_total

\* a Reserve was rejected by a wallet that is used up
C1_Witness ==
    /\ returned.op = "reserve"
    /\ returned.status = "rejected"
    /\ returned.walletId \in WalletIds
    /\ wallets[returned.walletId].status = "active"
    /\ wallets[returned.walletId].quota_used = wallets[returned.walletId].quota_total

\* C2: of the Reserve calls of one (userId, requestId), only the call whose transaction
\* finds no usage document changes a wallet's quotaUsed, and it adds its amount to one
\* wallet; every other step of a Reserve leaves the quotaUsed of every wallet as it is.
C2_OnlyFirstDebits ==
    [][\A p \in DOMAIN procs :
          (procs[p].op = "reserve" /\ StepOf(p)) =>
             LET key == <<procs[p].userId, procs[p].requestId>>
             IN \/ \A w \in WalletIds : wallets'[w].quota_used = wallets[w].quota_used
                \/ /\ ~usages[key].exists
                   /\ usages'[key].exists
                   /\ \E w \in WalletIds :
                        /\ wallets'[w].quota_used = wallets[w].quota_used + procs[p].amount
                        /\ \A v \in WalletIds \ {w} :
                              wallets'[v].quota_used = wallets[v].quota_used]_vars

C4_OneActiveWalletAtRest ==
    AllIdle => \A u \in Users : ActiveCount(u) <= 1

\* C5: at every instant a user has at most one active wallet.
C5_OneActiveWalletAlways ==
    \A u \in Users : ActiveCount(u) <= 1

\* C6: however often an event is delivered, its subscription transaction runs at most
\* once, and a delivery that finds the event's record writes to no collection.
C6_EventAppliedOnce ==
    [][/\ \A d \in DOMAIN applied' : applied'[d] <= 1
       /\ (returned'.op = "event" /\ returned'.status = "duplicate") =>
             /\ subs' = subs
             /\ wallets' = wallets
             /\ usages' = usages
             /\ webhooks' = webhooks]_vars

\* a redelivery was dropped after the event had been applied
C6_Witness ==
    /\ returned.op = "event"
    /\ returned.status = "duplicate"
    /\ \E d \in DOMAIN applied : applied[d] = 1 /\ webhooks[d] = "processed"

C8_ReserveRollbackRoundTrip ==
    [][(returned.op = "reserve" /\ returned.debited /\ returned.status = "reserved"
          /\ returned'.op = "rollback" /\ returned'.userId = returned.userId
          /\ returned'.requestId = returned.requestId) =>
          /\ wallets'[returned.walletId].quota_used = returned.pre
          /\ usages'[<<returned.userId, returned.requestId>>].status = "rolled_back"
          /\ returned'.status = "rolled_back"]_vars

\* a reservation of two units has just been rolled back
C8_Witness ==
    /\ returned.op = "rollback"
    /\ returned.status = "rolled_back"
    /\ usages[<<returned.userId, returned.requestId>>].amount = 2

\* C9: the Rollback of a committed usage record returns committed and changes neither
\* the record nor any wallet.
C9_RollbackAfterCommitIsNoop ==
    [][\A k \in DOMAIN usages :
          (usages[k].status = "committed" /\ returned'.op = "rollback"
             /\ returned'.userId = k[1] /\ returned'.requestId = k[2]) =>
             /\ returned'.status = "committed"
             /\ usages' = usages
             /\ wallets' = wallets]_vars

\* a Rollback was answered committed and the wallet is still debited
C9_Witness ==
    /\ returned.op = "rollback"
    /\ returned.status = "committed"
    /\ LET usage == usages[<<returned.userId, returned.requestId>>]
       IN /\ usage.status = "committed"
          /\ wallets[usage.wallet_id].quota_used >= usage.amount

C11_ProductChangeSwapsWallet ==
    [][\A p \in DOMAIN procs :
          (/\ procs[p].op = "event"
           /\ normalizeEventType(procs[p].payload.eventType) = "PRODUCT_CHANGE"
           /\ resolvePlanConfig(procs[p].payload.productId).planId = "premium_yearly"
           /\ procs[p].existingPlan = "premium_monthly"
           /\ procs[p].activeBefore # {}
           /\ StepOf(p)) =>
             /\ \A w \in WalletIds : wallets'[w].quota_used = wallets[w].quota_used
             /\ procs'[p].pc = "rc_mark" =>
                   /\ subs'[procs[p].userId].plan_id = "premium_yearly"
                   /\ \A w \in procs[p].activeBefore :
                         /\ wallets'[w].status = "closed"
                         /\ wallets'[w].closed_reason = "plan_change"
                   /\ \E w \in DOMAIN wallets' :
                         /\ w \notin procs[p].activeBefore
                         /\ ActiveWallets(procs[p].userId)' = {w}
                         /\ wallets'[w].quota_total = YearlyQuota
                         /\ wallets'[w].quota_used = 0]_vars

\* a PRODUCT_CHANGE to yearly has closed a monthly wallet that had one unit used
C11_Witness ==
    \E p \in DOMAIN procs :
        /\ procs[p].pc = "rc_mark"
        /\ normalizeEventType(procs[p].payload.eventType) = "PRODUCT_CHANGE"
        /\ procs[p].existingPlan = "premium_monthly"
        /\ subs[procs[p].userId].plan_id = "premium_yearly"
        /\ \E w \in procs[p].activeBefore :
              /\ wallets[w].closed_reason = "plan_change"
              /\ wallets[w].quota_used = 1
              /\ wallets[w].quota_total = MonthlyQuota

\* C12: a user on the free plan gets exactly two allowed reservations: the Reserve of a
\* new request is allowed with remaining 1 when no request was reserved before, allowed
\* with remaining 0 when one was, and rejected with remaining 0 when two were.
C12_FreeUserTwoReservations ==
    [][\A u \in Users :
          (/\ returned'.op = "reserve"
           /\ returned'.userId = u
           /\ returned'.requestId \in PlanReqIds
           /\ subs[u].plan_id = "free"
           /\ ~usages[<<u, returned'.requestId>>].exists) =>
             LET n == Cardinality({r \in PlanReqIds : usages[<<u, r>>].exists})
             IN IF n < FreeQuota
                THEN returned'.allowed /\ returned'.remaining = FreeQuota - (n + 1)
                ELSE /\ ~returned'.allowed
                     /\ returned'.status = "rejected"
                     /\ returned'.remaining = 0]_vars

\* C13: every subscription document has isActive = true exactly when its status is
\* active or cancelled.
C13_ActiveIffStatus ==
    \A u \in Users :
        subs[u].exists => (subs[u].is_active <=> subs[u].status \in {"active", "cancelled"})

\* a plan sync has put the user on the free plan: expired and not active
C13_Witness ==
    \E u \in Users :
        /\ subs[u].plan_id = "free"
        /\ subs[u].status = "expired"
        /\ ~subs[u].is_active
        /\ returned.op = "sync"

\* C14: once a wallet is closed no step changes it: its quotaUsed, quotaTotal, status
\* and the rest of the document stay as they are, also under the Rollback of a
\* reservation that was debited from it before it was closed.
C14_ClosedWalletImmutable ==
    [][\A w \in WalletIds :
          wallets[w].status = "closed" => wallets'[w] = wallets[w]]_vars

\* C15: whatever the interleaving of Reserves of different requests, the amounts reserved
\* from a wallet sum to at most its quotaTotal (it starts at quotaUsed 0), and its
\* quotaUsed stays between 0 and quotaTotal.
C15_ConcurrentReservesWithinQuota ==
    \A w \in WalletIds :
        /\ SumAmounts(DOMAIN usages, w) <= wallets[w].quota_total
        /\ 0 <= wallets[w].quota_used
        /\ wallets[w].quota_used <= wallets[w].quota_total

\* one Reserve has just debited a wallet while the Reserve of another request, which no
\* longer fits, is waiting for its transaction on the same wallet
C15_Witness ==
    /\ returned.op = "reserve"
    /\ returned.debited
    /\ \E q \in DOMAIN procs :
          /\ procs[q].pc = "rs_tx"
          /\ procs[q].wallet = returned.walletId
          /\ procs[q].requestId # returned.requestId
          /\ ~usages[<<procs[q].userId, procs[q].requestId>>].exists
          /\ ~ReserveFits(wallets[returned.walletId], procs[q].amount)

\* C16: when a delivery of an event returns normally, as processed or as a duplicate
\* (a retry after a failed attempt included), the event's subscription transition has
\* run exactly once and its wallet work is complete: the record is marked processed.
C16_RetryAppliesOnce ==
    (returned.op = "event" /\ returned.status \in {"processed", "duplicate"}
        /\ returned.requestId # Null) =>
       LET eventDocId == getWebhookEventId([NoPayload EXCEPT !.eventId = returned.requestId])
       IN /\ applied[eventDocId] = 1
          /\ webhooks[eventDocId] = "processed"

\* C17: after a purchase of the monthly plan and a GRACE_PERIOD event have been processed
\* (and no other event), the Reserve of a new request before the period end is allowed;
\* the quota of 100 is never used up by the model's requests.
C17_GracePeriodKeepsUsage ==
    [][\A u \in Users :
          (FreshReserveReturns(u) /\ OnlyProcessed(u, {"INITIAL_PURCHASE", "GRACE_PERIOD"})) =>
             returned'.allowed]_vars

\* C18: a BILLING_ISSUE or PAUSE event makes the subscription inactive, so that Reserve is
\* rejected, and no step of its handler changes the status or the quotaUsed of a wallet.
C18_BillingIssueKeepsWallet ==
    [][\A p \in DOMAIN procs :
          (/\ procs[p].op = "event"
           /\ normalizeEventType(procs[p].payload.eventType) \in {"BILLING_ISSUE", "PAUSE"}
           /\ StepOf(p)) =>
             /\ procs[p].pc = "rc_subtx" => ~subs'[procs[p].userId].is_active
             /\ \A w \in WalletIds :
                   /\ wallets'[w].status = wallets[w].status
                   /\ wallets'[w].quota_used = wallets[w].quota_used]_vars

C21_EmptyRequestIdRejected ==
    [][(returned'.op = "reserve" /\ returned'.requestId = "") =>
          /\ ~returned'.allowed
          /\ returned'.status = "rejected"
          /\ subs' = subs
          /\ wallets' = wallets
          /\ usages' = usages
          /\ webhooks' = webhooks]_vars

\* a Reserve without requestId was rejected although the user's wallet has quota left
C21_Witness ==
    /\ returned.op = "reserve"
    /\ returned.requestId = ""
    /\ returned.status = "rejected"
    /\ subs[returned.userId].is_active
    /\ \E w \in ActiveWallets(returned.userId) : wallets[w].quota_used < wallets[w].quota_total

SyncWrote(u) ==
    \E p \in DOMAIN procs :
        /\ procs[p].pc = "idle"
        /\ procs'[p].op = "sync"
        /\ procs'[p].userId = u
        /\ subs'[u] # subs[u]

\* the period end is the first day of the month after the day nowAt
FirstOfNextMonth(nowAt, periodEnd) ==
    /\ getUTCDate(periodEnd) = 1
    /\ IF getUTCMonth(nowAt) = MonthsPerYear - 1
       THEN getUTCMonth(periodEnd) = 0 /\ getUTCFullYear(periodEnd) = getUTCFullYear(nowAt) + 1
       ELSE /\ getUTCMonth(periodEnd) = getUTCMonth(nowAt) + 1
            /\ getUTCFullYear(periodEnd) = getUTCFullYear(nowAt)

\* the period end is the same month and day as nowAt in the following year
SameDayNextYear(nowAt, periodEnd) ==
    /\ getUTCFullYear(periodEnd) = getUTCFullYear(nowAt) + 1
    /\ getUTCMonth(periodEnd) = getUTCMonth(nowAt)
    /\ getUTCDate(periodEnd) = getUTCDate(nowAt)

\* C23 as stated: a plan sync sets the period end to the first day of the next month for a
\* monthly plan, and to the same month and day one year ahead for a yearly plan, on every
\* current date including 29 February.
C23_PeriodEndSameDay ==
    [][\A u \in Users : SyncWrote(u) =>
          IF getPlanConfigById(subs'[u].plan_id).cycle = "monthly"
          THEN FirstOfNextMonth(now, subs'[u].current_period_end)
          ELSE SameDayNextYear(now, subs'[u].current_period_end)]_vars

\* C23: a plan sync sets the period end to the first day of the next month for a monthly
\* plan; for a yearly plan to the same month and day one year ahead, except on 29 February,
\* where it is 1 March of the following year.
C23_PeriodEndFromDate ==
    [][\A u \in Users : SyncWrote(u) =>
          LET periodEnd == subs'[u].current_period_end
          IN /\ subs'[u].current_period_start = now
             /\ IF getPlanConfigById(subs'[u].plan_id).cycle = "monthly"
                THEN FirstOfNextMonth(now, periodEnd)
                ELSE IF getUTCMonth(now) = 1 /\ getUTCDate(now) = 29
                     THEN /\ getUTCFullYear(periodEnd) = getUTCFullYear(now) + 1
                          /\ getUTCMonth(periodEnd) = 2
                          /\ getUTCDate(periodEnd) = 1
                     ELSE SameDayNextYear(now, periodEnd)]_vars

\* a yearly plan was synced on 29 February and its period ends on 1 March
C23_Witness ==
    \E u \in Users :
        /\ getUTCMonth(now) = 1
        /\ getUTCDate(now) = 29
        /\ subs[u].plan_id = "premium_yearly"
        /\ subs[u].current_period_start = now
        /\ getUTCMonth(subs[u].current_period_end) = 2
        /\ getUTCDate(subs[u].current_period_end) = 1

\* C24: a Reserve for a request without usage record whose transaction finds its wallet
\* active is allowed exactly when quota_used + amount <= quota_total; when allowed it
\* debits the amount and returns remaining = quota_total - (quota_used + amount), otherwise
\* it is rejected and nothing is written.  So a Reserve on a full wallet is rejected.
C24_AllowedIffWithinQuota ==
    [][\A p \in DOMAIN procs :
          (/\ procs[p].pc = "rs_tx"
           /\ StepOf(p)
           /\ procs[p].wallet # 0
           /\ wallets[procs[p].wallet].status = "active"
           /\ ~usages[<<procs[p].userId, procs[p].requestId>>].exists) =>
             LET w == procs[p].wallet
                 used == wallets[w].quota_used
                 total == wallets[w].quota_total
                 amount == procs[p].amount
             IN /\ returned'.op = "reserve"
                /\ returned'.requestId = procs[p].requestId
                /\ returned'.allowed <=> used + amount <= total
                /\ returned'.allowed =>
                      /\ returned'.status = "reserved"
                      /\ returned'.remaining = total - (used + amount)
                      /\ wallets'[w].quota_used = used + amount
                /\ ~returned'.allowed =>
                      /\ returned'.status = "rejected"
                      /\ wallets' = wallets
                      /\ usages' = usages]_vars

\* two Reserves of one unit filled the wallet and the Reserve of a third request was rejected
C24_Witness ==
    /\ returned.op = "reserve"
    /\ returned.requestId = "r3"
    /\ returned.status = "rejected"
    /\ usages[<<"u1", "r1">>].status = "reserved" /\ usages[<<"u1", "r1">>].amount = 1
    /\ usages[<<"u1", "r2">>].status = "reserved" /\ usages[<<"u1", "r2">>].amount = 1
    /\ wallets[returned.walletId].status = "active"
    /\ wallets[returned.walletId].quota_used = wallets[returned.walletId].quota_total
    /\ usages[<<"u1", "r1">>].wallet_id = returned.walletId
    /\ usages[<<"u1", "r2">>].wallet_id = returned.walletId

\* a Reserve has just returned for a request whose usage record is rolled_back
ReserveOfRolledBack ==
    /\ returned'.op = "reserve"
    /\ returned'.requestId \in ReqIds
    /\ usages[<<returned'.userId, returned'.requestId>>].status = "rolled_back"

\* C25 as stated: every Reserve for a request whose reservation was rolled back returns
\* allowed = false with status rolled_back and debits nothing.
C25_RolledBackStatusOnRetry ==
    [][ReserveOfRolledBack =>
          /\ ~returned'.allowed
          /\ returned'.status = "rolled_back"
          /\ ~returned'.debited]_vars

\* C25: every Reserve for a request whose reservation was rolled back returns allowed =
\* false, debits no wallet and leaves the usage records alone; its status is rolled_back
\* when the subscription is active and rejected when it is not.
C25_RolledBackNeverReserves ==
    [][ReserveOfRolledBack =>
          /\ ~returned'.allowed
          /\ ~returned'.debited
          /\ usages' = usages
          /\ \A w \in DOMAIN wallets : wallets'[w].quota_used = wallets[w].quota_used
          /\ returned'.status =
                IF SubscriptionUsable(subs[returned'.userId]) THEN "rolled_back" ELSE "rejected"]_vars

\* a rolled-back request was reserved again after the refund and answered rejected
C25_Witness ==
    /\ returned.op = "reserve"
    /\ returned.requestId \in ReqIds
    /\ usages[<<returned.userId, returned.requestId>>].status = "rolled_back"
    /\ subs[returned.userId].status = "refunded"
    /\ returned.status = "rejected"
    /\ ~returned.allowed

RECURSIVE SumHeld(_, _)
\* the sum of amount over the usage records keys that reference wallet w and are reserved
\* or committed
SumHeld(keys, w) ==
    IF keys = {} THEN 0
    ELSE LET k == CHOOSE x \in keys : TRUE
         IN (IF /\ usages[k].exists
                /\ usages[k].wallet_id = w
                /\ usages[k].status \in {"reserved", "committed"}
             THEN usages[k].amount ELSE 0)
            + SumHeld(keys \ {k}, w)

\* C26: the quotaUsed of every active wallet equals the sum of amount over the usage
\* records that reference it and are reserved or committed: a Rollback gives back exactly
\* what its Reserve debited.
C26_UsedEqualsHeld ==
    \A w \in WalletIds :
        wallets[w].status = "active" => wallets[w].quota_used = SumHeld(DOMAIN usages, w)

\* a Rollback has just refunded one of two reservations on an active wallet
C26_Witness ==
    /\ returned.op = "rollback"
    /\ returned.status = "rolled_back"
    /\ \E k \in DOMAIN usages :
          /\ k # <<returned.userId, returned.requestId>>
          /\ usages[k].status \in {"reserved", "committed"}
          /\ usages[k].wallet_id = usages[<<returned.userId, returned.requestId>>].wallet_id
          /\ wallets[usages[k].wallet_id].status = "active"
          /\ wallets[usages[k].wallet_id].quota_used = usages[k].amount

\* C27: when the transaction of a Reserve finds the wallet the call selected closed, the
\* Reserve is rejected, no usage record is created, the wallet stays as it is, and the
\* remaining reported is max(0, quotaTotal - quotaUsed) of the closed wallet.
C27_ClosedBeforeTransaction ==
    [][\A p \in DOMAIN procs :
          (/\ procs[p].pc = "rs_tx"
           /\ StepOf(p)
           /\ procs[p].wallet # 0
           /\ wallets[procs[p].wallet].status = "closed") =>
             LET w == procs[p].wallet
                 left == wallets[w].quota_total - wallets[w].quota_used
             IN /\ returned'.op = "reserve"
                /\ returned'.requestId = procs[p].requestId
                /\ ~returned'.allowed
                /\ returned'.status = "rejected"
                /\ returned'.walletId = w
                /\ returned'.remaining = IF left > 0 THEN left ELSE 0
                /\ usages' = usages
                /\ wallets' = wallets]_vars

\* a Reserve for a request without usage record was rejected by a closed wallet that has
\* quota left
C27_Witness ==
    /\ returned.op = "reserve"
    /\ returned.status = "rejected"
    /\ returned.requestId \in ReqIds
    /\ ~usages[<<returned.userId, returned.requestId>>].exists
    /\ returned.walletId \in WalletIds
    /\ wallets[returned.walletId].status = "closed"
    /\ returned.remaining > 0
    /\ returned.remaining = wallets[returned.walletId].quota_total - wallets[returned.walletId].quota_used

\* C28: a Commit changes no wallet document: without a usage record for (userId,
\* requestId) it returns none and writes nothing, for a committed or rolled_back record it
\* returns that status and leaves the record as it is, and for a reserved record it sets
\* the status to committed and changes nothing else.
C28_CommitFrame ==
    [][returned'.op = "commit" =>
          LET k == <<returned'.userId, returned'.requestId>>
          IN /\ wallets' = wallets
             /\ subs' = subs
             /\ webhooks' = webhooks
             /\ ~usages[k].exists => returned'.status = Null /\ usages' = usages
             /\ usages[k].status \in {"committed", "rolled_back"} =>
                   returned'.status = usages[k].status /\ usages' = usages
             /\ usages[k].status = "reserved" =>
                   /\ returned'.status = "committed"
                   /\ usages' = [usages EXCEPT ![k].status = "committed"]]_vars

\* a Commit has just committed a reservation and its wallet is still debited and active
C28_Witness ==
    /\ returned.op = "commit"
    /\ returned.status = "committed"
    /\ LET usage == usages[<<returned.userId, returned.requestId>>]
       IN /\ usage.status = "committed"
          /\ wallets[usage.wallet_id].status = "active"
          /\ wallets[usage.wallet_id].quota_used = usage.amount

\* handler p takes the step in which the transaction of its Reserve finds the wallet
\* active, no usage record, and quota_used + amount above quota_total
RejectsForQuota(p) ==
    /\ procs[p].pc = "rs_tx"
    /\ StepOf(p)
    /\ procs[p].wallet # 0
    /\ wallets[procs[p].wallet].status = "active"
    /\ ~usages[<<procs[p].userId, procs[p].requestId>>].exists
    /\ wallets[procs[p].wallet].quota_used + procs[p].amount > wallets[procs[p].wallet].quota_total

\* the Reserve of handler record l went through the rollover of ensureActiveWallet:
\* closeWalletsForUser was entered (which sets ret) and openWalletForSubscription has set
\* the wallet the call now holds
RolledOver(l) == l.op = "reserve" /\ l.ret # Null /\ l.wallet # 0

\* C29 as stated: a Reserve rejected because quotaUsed + amount > quotaTotal has created,
\* closed or changed no wallet document and created no usage document.
C29_QuotaRejectionWritesNothing ==
    [][\A p \in DOMAIN procs :
          RejectsForQuota(p) =>
             /\ returned'.status = "rejected"
             /\ wallets' = wallets
             /\ usages' = usages
             /\ ~RolledOver(procs[p])]_vars

\* C29: the transaction of a Reserve that rejects because quotaUsed + amount > quotaTotal
\* writes nothing, and in no step of a Reserve that is not allowed is a usage record
\* created or a quotaUsed changed; the only wallet writes of such a call are those of the
\* rollover before the transaction: active wallets are closed with reason period_reset or
\* plan_change and one wallet with quotaUsed 0 is opened.
C29_QuotaRejectionDebitsNothing ==
    [][\A p \in DOMAIN procs :
          /\ RejectsForQuota(p) =>
                /\ returned'.op = "reserve"
                /\ ~returned'.allowed
                /\ returned'.status = "rejected"
                /\ wallets' = wallets
                /\ usages' = usages
          /\ (procs[p].op = "reserve" /\ StepOf(p) /\ ~returned'.debited) =>
                /\ usages' = usages
                /\ \A w \in WalletIds :
                      \/ wallets'[w] = wallets[w]
                      \/ /\ wallets[w].status = "active"
                         /\ \E reason \in {"period_reset", "plan_change"} :
                               wallets'[w] = [wallets[w] EXCEPT !.status = "closed",
                                                                !.closed_reason = reason]
                /\ \/ Len(wallets') = Len(wallets)
                   \/ /\ Len(wallets') = Len(wallets) + 1
                      /\ wallets'[Len(wallets')].quota_used = 0
                      /\ wallets'[Len(wallets')].status = "active"]_vars

\* a Reserve was rejected for quota by the fresh wallet its own rollover opened after
\* closing the expired one
C29_Witness ==
    /\ returned.op = "reserve"
    /\ returned.status = "rejected"
    /\ returned.requestId \in ReqIds
    /\ ~usages[<<returned.userId, returned.requestId>>].exists
    /\ returned.walletId \in WalletIds
    /\ returned.walletId > 1
    /\ wallets[returned.walletId].status = "active"
    /\ wallets[returned.walletId].quota_used = 0
    /\ returned.remaining = wallets[returned.walletId].quota_total
    /\ wallets[returned.walletId - 1].closed_reason = "period_reset"

\* webhook_events documents d and e were derived from payloads without eventId that agree
\* on userId, periodStart, periodEnd and on the event type once it is uppercased
SameEventIgnoringCase(d, e) ==
    /\ d.eventId = Null
    /\ e.eventId = Null
    /\ d.userId = e.userId
    /\ normalizeEventType(d.eventType) = normalizeEventType(e.eventType)
    /\ d.periodStart = e.periodStart
    /\ d.periodEnd = e.periodEnd

\* C30: a payload without eventId whose userId, periodStart, periodEnd and uppercased
\* event type agree with those of a recorded webhook event gets no webhook_events document
\* of its own: it maps to the recorded one and is dropped as a duplicate.
C30_EventIdIgnoresCase ==
    [][\A d \in DOMAIN webhooks' \ DOMAIN webhooks :
          ~\E e \in DOMAIN webhooks : SameEventIgnoringCase(d, e)]_vars

\* C31: every webhook event record that is written as received is marked processed later
\* on; none stays received forever.
C31_EveryEventProcessed ==
    \A payload \in RetryPayloads :
        LET d == getWebhookEventId(payload)
        IN (d \in DOMAIN webhooks /\ webhooks[d] = "received")
              ~> (d \in DOMAIN webhooks /\ webhooks[d] = "processed")

\* handler p takes the step of the subscription transaction of an event
DecidesEvent(p) == procs[p].pc = "rc_subtx" /\ StepOf(p)

\* handler p takes the last step of an event: the record is marked processed
EndsEvent(p) == procs[p].op = "event" /\ procs[p].pc = "rc_mark" /\ StepOf(p)

\* the planId the event resolves to: that of its product, else the stored one
ResolvedPlanId(payload, existing) ==
    IF NextPlan(payload, existing) # NoPlan THEN NextPlan(payload, existing).planId ELSE Null

\* C32 as stated: an event decides to open a wallet exactly when the resulting isActive is
\* true and the event is a purchase, or the resolved planId differs from the stored one, or
\* the payload's periodEnd differs from the stored one, a missing stored value counting as
\* different; it closes the open wallets first exactly when plan or period differ; and it
\* opens a wallet exactly when it decided to.
C32_OpensWalletOnAnyDifference ==
    [][\A p \in DOMAIN procs :
          /\ DecidesEvent(p) =>
                LET payload == procs[p].payload
                    existing == subs[procs[p].userId]
                    planChanged == ResolvedPlanId(payload, existing) # existing.plan_id
                    periodChanged == /\ payload.periodEnd # NoTime
                                     /\ payload.periodEnd # existing.current_period_end
                IN /\ procs'[p].shouldOpenWallet <=>
                         /\ subs'[procs[p].userId].is_active
                         /\ \/ isPurchaseEvent(normalizeEventType(payload.eventType))
                            \/ planChanged
                            \/ periodChanged
                   /\ procs'[p].closeExisting <=> (planChanged \/ periodChanged)
          /\ EndsEvent(p) => (procs[p].wallet # 0 <=> procs[p].shouldOpenWallet)]_vars

\* C32: an event decides to open a wallet exactly when the resulting isActive is true and
\* the event is a purchase, or a planId is stored and the resolved one differs from it, or a
\* periodEnd is stored and the payload carries a different one; it closes the open wallets
\* first exactly when plan or period changed in that sense; and it opens a wallet exactly
\* when it decided to and the subscription's planId is in the catalog.
C32_OpensWalletOnChange ==
    [][\A p \in DOMAIN procs :
          /\ DecidesEvent(p) =>
                LET payload == procs[p].payload
                    existing == subs[procs[p].userId]
                    planChanged == /\ existing.plan_id # Null
                                   /\ ResolvedPlanId(payload, existing) # existing.plan_id
                    periodChanged == /\ existing.current_period_end # NoTime
                                     /\ payload.periodEnd # NoTime
                                     /\ payload.periodEnd # existing.current_period_end
                IN /\ procs'[p].shouldOpenWallet <=>
                         /\ subs'[procs[p].userId].is_active
                         /\ \/ isPurchaseEvent(normalizeEventType(payload.eventType))
                            \/ planChanged
                            \/ periodChanged
                   /\ procs'[p].closeExisting <=> (planChanged \/ periodChanged)
          /\ EndsEvent(p) =>
                /\ procs[p].wallet # 0 <=>
                      /\ procs[p].shouldOpenWallet
                      /\ getPlanConfigById(procs[p].subscription.plan_id) # NoPlan
                /\ procs[p].wallet # 0 =>
                      /\ wallets[procs[p].wallet].status = "active"
                      /\ procs[p].closeExisting =>
                            \A w \in procs[p].activeBefore : wallets[w].status = "closed"]_vars

\* an event that is no purchase made a user without subscription active on a catalog plan
\* with a period, and ends without having opened a wallet
C32_Witness ==
    \E p \in DOMAIN procs :
        /\ procs[p].op = "event"
        /\ procs[p].pc = "rc_mark"
        /\ procs[p].existingPlan = Null
        /\ ~isPurchaseEvent(normalizeEventType(procs[p].payload.eventType))
        /\ subs[procs[p].userId].is_active
        /\ subs[procs[p].userId].plan_id = "premium_monthly"
        /\ procs[p].payload.periodEnd # NoTime
        /\ procs[p].wallet = 0
        /\ wallets = << >>

\* the effective end of wallet w for the subscription the handler read
EffectiveEnd(w, subscription) ==
    IF wallets[w].period_end # NoTime THEN wallets[w].period_end
    ELSE subscription.current_period_end

\* C33: ensureActiveWallet writes nothing when it has nothing to roll over.  A Reserve
\* that reads a subscription that is not active returns without a write; and when the
\* active wallet its query returns has an effective end strictly later than now, the call
\* goes on to its transaction with that wallet, having closed and opened no wallet.
C33_EnsureActiveFrame ==
    [][\A p \in DOMAIN procs :
          /\ (procs[p].pc = "rs_getsub" /\ StepOf(p) /\ ~subs[procs[p].userId].is_active) =>
                /\ returned'.status = "rejected"
                /\ returned'.walletId = 0
                /\ wallets' = wallets
                /\ usages' = usages
                /\ subs' = subs
          /\ (/\ procs[p].pc = "ea_query"
              /\ StepOf(p)
              /\ \A w \in getActiveWallet(procs[p].userId) :
                    /\ w # 0
                    /\ EffectiveEnd(w, procs[p].subscription) # NoTime
                    /\ EffectiveEnd(w, procs[p].subscription) > procs[p].now) =>
                /\ procs'[p].pc = "rs_tx"
                /\ procs'[p].wallet \in getActiveWallet(procs[p].userId)
                /\ ~RolledOver(procs'[p])
                /\ wallets' = wallets
                /\ usages' = usages
                /\ subs' = subs]_vars

\* a Reserve holds the wallet it found, whose period has not ended, and the debited
\* wallet is still the only one
C33_Witness ==
    \E p \in DOMAIN procs :
        /\ procs[p].op = "reserve"
        /\ procs[p].pc = "rs_tx"
        /\ procs[p].wallet = 1
        /\ ~RolledOver(procs[p])
        /\ Len(wallets) = 1
        /\ wallets[1].status = "active"
        /\ wallets[1].quota_used > 0
        /\ wallets[1].period_end > procs[p].now

\* C34: every usage record has amount >= 1, and no step of a Reserve lowers the
\* quotaUsed of a wallet.
C34_UsageAmountPositive ==
    [][/\ \A k \in DOMAIN usages : usages'[k].exists => usages'[k].amount >= 1
       /\ \A p \in DOMAIN procs :
             (procs[p].op = "reserve" /\ StepOf(p)) =>
                \A w \in WalletIds : wallets'[w].quota_used >= wallets[w].quota_used]_vars

\* C35: once every ProcessBillingEvent call has completed, a subscription that is not
\* active has no active wallet, and every active wallet was opened for the subscription's
\* current planId.
C35_WalletsFollowSubscription ==
    (\A p \in DOMAIN procs : procs[p].op # "event") =>
        \A u \in Users :
            /\ ~subs[u].is_active => ActiveWallets(u) = {}
            /\ \A w \in ActiveWallets(u) : wallets[w].plan_id = subs[u].plan_id

RECURSIVE SumPeriod(_, _, _)
\* the sum of amount over the usage records keys of user u that are reserved or committed
\* on a wallet whose period ends at periodEnd
SumPeriod(keys, u, periodEnd) ==
    IF keys = {} THEN 0
    ELSE LET k == CHOOSE x \in keys : TRUE
         IN (IF /\ k[1] = u
                /\ usages[k].exists
                /\ usages[k].status \in {"reserved", "committed"}
                /\ wallets[usages[k].wallet_id].period_end = periodEnd
             THEN usages[k].amount ELSE 0)
            + SumPeriod(keys \ {k}, u, periodEnd)

\* C36: the amounts reserved within one subscription period sum to at most the plan's
\* quota, also after the period's end has passed without a billing event: no fresh wallet
\* brings a second quota for a period that has ended.
C36_OneQuotaPerPeriod ==
    \A u \in Users :
        subs[u].is_active =>
           SumPeriod(DOMAIN usages, u, subs[u].current_period_end)
              <= getPlanConfigById(subs[u].plan_id).quota

\* C37: the transaction of a Reserve debits a wallet and creates the usage record only
\* while the subscription is active: never after an event's subscription write has set
\* isActive = false.
C37_DebitOnlyWhileActive ==
    [][(returned'.op = "reserve" /\ returned'.debited) =>
          subs[returned'.userId].is_active]_vars

\* C38: when the call for an event delivered without eventId is over, the subscription
\* has the target status of that event, whether the call applied the event or dropped it
\* as a duplicate: an event is dropped only when it is a redelivery, not when other
\* events were processed since the one it resembles.
C38_LastEventDecidesStatus ==
    [][\A p \in DOMAIN procs :
          /\ EndsEvent(p) =>
                subs'[procs[p].userId].status =
                   EventStatus(normalizeEventType(procs[p].payload.eventType),
                               subs[procs[p].userId])
          /\ \A payload \in TogglePayloads :
                (ProcessEventDedup(p, payload) /\ returned'.status = "duplicate") =>
                   subs'[payload.userId].status =
                      EventStatus(normalizeEventType(payload.eventType), subs[payload.userId])]_vars

\* C39: a subscription with isActive = true has a planId, and the planId is in the
\* catalog.
C39_ActiveHasCatalogPlan ==
    \A u \in Users :
        subs[u].is_active =>
           /\ subs[u].plan_id # Null
           /\ getPlanConfigById(subs[u].plan_id) # NoPlan

----------------------------------------------------------------------------
\* The earlier quota model: one users_quato document per user (planId, month cycle,
\* imagesLimit, imagesUsed). Dates are stored with toISOString and read back with
\* new Date(...), which is exact to the millisecond; the model keeps the day they denote.

PLAN_QUOTAS ==
    [free |-> [imagesPerCycle |-> 2, cycle |-> "month"],
     premium_base_monthly |-> [imagesPerCycle |-> 100, cycle |-> "month"],
     premium_pro_monthly |-> [imagesPerCycle |-> 400, cycle |-> "month"],
     premium_base_yearly |-> [imagesPerCycle |-> 100, cycle |-> "month"],
     premium_pro_yearly |-> [imagesPerCycle |-> 300, cycle |-> "month"]]

\* Object.keys(PLAN_QUOTAS), in insertion order
PlanQuotaKeys ==
    <<"free", "premium_base_monthly", "premium_pro_monthly", "premium_base_yearly",
      "premium_pro_yearly">>

getMonthCycle(nowAt) ==
    [start |-> DateUTC(getUTCFullYear(nowAt), getUTCMonth(nowAt), 1),
     end |-> DateUTC(getUTCFullYear(nowAt), getUTCMonth(nowAt) + 1, 1)]

computeCycle(cycle, nowAt) == getMonthCycle(nowAt)

\* value.toLowerCase().trim() on the plan identifiers the model feeds in
normalizePlanId(value) ==
    CASE value = "FREE " -> "free"
      [] OTHER -> value

\* normalized.includes(planId) on the plan identifiers the model feeds in
IncludesPlanId(normalized, planId) ==
    \/ normalized = planId
    \/ planId = "free" /\ normalized = "freemium"

\* resolvePlanId of the earlier model
resolveQuotaPlanId(candidate) ==
    IF candidate = Null \/ candidate = "" THEN Null
    ELSE LET normalized == normalizePlanId(candidate)
             match == {i \in 1..Len(PlanQuotaKeys) : IncludesPlanId(normalized, PlanQuotaKeys[i])}
         IN IF normalized \in DOMAIN PLAN_QUOTAS THEN normalized
            ELSE IF match = {} THEN Null
            ELSE PlanQuotaKeys[CHOOSE i \in match : \A j \in match : i <= j]

\* mutant: the cycle is reset only once its end has passed
ShouldResetAfterEnd(existing, nowAt) ==
    \/ ~existing.exists
    \/ existing.cycleEnd = NoTime
    \/ existing.cycleEnd < nowAt

\* shouldReset: no stored cycleEnd, or a cycleEnd that is not after now
ShouldReset(existing, nowAt) ==
    \/ ~existing.exists
    \/ existing.cycleEnd = NoTime
    \/ existing.cycleEnd <= nowAt

BaseUsed(existing, nowAt) == IF ShouldReset(existing, nowAt) THEN 0 ELSE existing.imagesUsed

\* the document both calls write: plan and cycle of now, with the given count
QuotaPayload(resolvedPlanId, nowAt, imagesUsed) ==
    LET planQuota == PLAN_QUOTAS[resolvedPlanId]
        c == computeCycle(planQuota.cycle, nowAt)
    IN [exists |-> TRUE, planId |-> resolvedPlanId, cycle |-> planQuota.cycle,
        cycleStart |-> c.start, cycleEnd |-> c.end,
        imagesLimit |-> planQuota.imagesPerCycle, imagesUsed |-> imagesUsed]

\* resolvePlanId(existing?.planId ?? null) || 'free'
StoredPlanId(existing) ==
    LET resolved == resolveQuotaPlanId(IF existing.exists THEN existing.planId ELSE Null)
    IN IF resolved = Null THEN "free" ELSE resolved

QuotaResult(op, userId, allowed, remaining) ==
    [NoResult EXCEPT !.op = op, !.userId = userId, !.allowed = allowed, !.remaining = remaining]

\* consumeImage(userId): now is taken when the call starts (nowAt), the transaction
\* commits at the current time
consumeImage(userId, nowAt) ==
    LET existing == quotas[userId]
        resolvedPlanId == StoredPlanId(existing)
        baseUsed == BaseUsed(existing, nowAt)
        imagesLimit == PLAN_QUOTAS[resolvedPlanId].imagesPerCycle
        remaining == Max(0, imagesLimit - baseUsed)
    IN /\ IF remaining <= 0
          THEN /\ quotas' = [quotas EXCEPT ![userId] = QuotaPayload(resolvedPlanId, nowAt, baseUsed)]
               /\ returned' = QuotaResult("consumeImage", userId, FALSE, 0)
          ELSE /\ quotas' = [quotas EXCEPT ![userId] =
                                QuotaPayload(resolvedPlanId, nowAt, baseUsed + 1)]
               /\ returned' = QuotaResult("consumeImage", userId, TRUE,
                                          Max(0, imagesLimit - (baseUsed + 1)))
       /\ prev' = prev
       /\ UNCHANGED <<now, subs, wallets, usages, webhooks, procs, applied>>

\* releaseImage(userId)
releaseImage(userId, nowAt) ==
    LET existing == quotas[userId]
        baseUsed == BaseUsed(existing, nowAt)
        nextUsed == Max(0, baseUsed - 1)
    IN /\ IF ~existing.exists
          THEN quotas' = quotas
          ELSE quotas' = [quotas EXCEPT ![userId] =
                             QuotaPayload(StoredPlanId(existing), nowAt, nextUsed)]
       /\ returned' = QuotaResult("releaseImage", userId, FALSE, 0)
       /\ prev' = prev
       /\ UNCHANGED <<now, subs, wallets, usages, webhooks, procs, applied>>

\* syncQuotaFromPlan(userId, planIdCandidate) of the earlier model: the read of the
\* document and the write of the payload, as one step
syncQuotaDocFromPlan(userId, planIdCandidate) ==
    LET planId == resolveQuotaPlanId(planIdCandidate)
        existing == quotas[userId]
    IN /\ IF planId = Null
          THEN /\ quotas' = quotas
               /\ returned' = QuotaResult("syncQuota", userId, FALSE, 0)
          ELSE /\ quotas' = [quotas EXCEPT ![userId] =
                                QuotaPayload(planId, now, BaseUsed(existing, now))]
               /\ returned' = QuotaResult("syncQuota", userId, TRUE, 0)
       /\ prev' = prev
       /\ UNCHANGED <<now, subs, wallets, usages, webhooks, procs, applied>>

\* the last day of January 2024
QuotaStartDay == DateUTC(EpochYear, 0, DaysInMonth(EpochYear, 0))

\* the times at which a call still in flight can have started
QuotaCallTimes == QuotaStartDay .. now

QuotaCandidates == {"free", "FREE ", "freemium", "premium_base_monthly", "gold"}

QuotaTick ==
    /\ now < QuotaStartDay + MaxTime
    /\ now' = now + 1
    /\ NoReturn
    /\ UNCHANGED <<subs, wallets, usages, webhooks, procs, applied, quotas>>

InitQuotaDoc ==
    /\ now = QuotaStartDay
    /\ subs = [u \in Users |-> NoSub]
    /\ wallets = << >>
    /\ usages = [k \in Users \X ReqIds |-> NoUsage]
    /\ webhooks = << >>
    /\ applied = << >>
    /\ returned = NoResult
    /\ prev = [k \in Users \X ReqIds |-> NoPrev]
    /\ quotas = [u \in Users |-> NoQuota]
    /\ procs = [p \in {1} |-> IdleProc]

NextQuotaDoc ==
    \/ \E u \in Users, nowAt \in QuotaCallTimes : consumeImage(u, nowAt)
    \/ \E u \in Users, nowAt \in QuotaCallTimes : releaseImage(u, nowAt)
    \/ \E u \in Users, c \in QuotaCandidates : syncQuotaDocFromPlan(u, c)
    \/ QuotaTick

SpecQuotaDoc == InitQuotaDoc /\ [][NextQuotaDoc]_vars

\* the count a call starts from: 0 when there is no document or its stored cycleEnd is
\* not after the call's now, the stored imagesUsed otherwise
CountBefore(userId, nowAt) ==
    IF ~quotas[userId].exists \/ quotas[userId].cycleEnd <= nowAt THEN 0
    ELSE quotas[userId].imagesUsed

\* C40: every consumeImage and releaseImage call that starts from a count within the
\* limit leaves 0 <= imagesUsed <= imagesLimit; consumeImage is allowed exactly when the
\* count before it is below imagesLimit and then adds 1 (and leaves it alone otherwise);
\* releaseImage takes 1 off, not below 0; a stored cycleEnd that is not after the call's
\* now makes the count start from 0.
C40_SingleDocumentQuota ==
    [][\A u \in Users, nowAt \in QuotaCallTimes :
          LET before == CountBefore(u, nowAt)
          IN /\ consumeImage(u, nowAt) =>
                   /\ returned'.allowed = (before < quotas'[u].imagesLimit)
                   /\ quotas'[u].imagesUsed = (IF returned'.allowed THEN before + 1 ELSE before)
                   /\ 0 <= quotas'[u].imagesUsed
                   /\ before <= quotas'[u].imagesLimit =>
                         quotas'[u].imagesUsed <= quotas'[u].imagesLimit
             /\ (releaseImage(u, nowAt) /\ quotas[u].exists) =>
                   /\ quotas'[u].imagesUsed = (IF before > 0 THEN before - 1 ELSE 0)
                   /\ before <= quotas'[u].imagesLimit =>
                         quotas'[u].imagesUsed <= quotas'[u].imagesLimit]_vars

\* a consumeImage call was refused with the month's images used up
C40_Witness ==
    /\ returned.op = "consumeImage"
    /\ ~returned.allowed
    /\ \E u \in Users :
          /\ quotas[u].exists
          /\ quotas[u].imagesUsed = quotas[u].imagesLimit
          /\ quotas[u].cycleStart > QuotaStartDay

====
